---- MODULE Spec2Model ----
(***************************************************************************)
(* A model of the AthosCcompiler pipeline: the resolver (validate.cpp),    *)
(* the TACKY lowerer (lowerer.cpp), the assembly IR generation, the        *)
(* pseudo-to-stack pass, the legalization pass and the emitter (asdl.cpp). *)
(* Every pass is a pure operator translated from its C++ function; the     *)
(* state machine runs the passes one after the other on a program drawn    *)
(* from a bounded family of ASTs and then walks the emitted assembly.      *)
(***************************************************************************)
EXTENDS Integers, Sequences, FiniteSets, TLC

VARIABLES
    stage,          \* which pass ran last
    input,          \* the text of the source file, one element per character
    tokens,         \* the std::vector<Lex> the lexer returned, the parser reads
    program,        \* the AST (Program::function): [name, body]
    counter,        \* the static int of generateUniqueName
    error,          \* the message of the exception that ended the compile, "" if none
    tackyBody,      \* tacky::Function::body
    instructions,   \* FunctionDefinition::instructions
    pseudoOffsets,  \* the map pseudoOffsets of replacePseudosWithStack
    stackSize,      \* the value replacePseudosWithStack returned
    asmCode,        \* the assembly text, one element per line
    rip             \* the line of asmCode a walk of the text stands at

vars == <<stage, input, tokens, program, counter, error, tackyBody, instructions,
          pseudoOffsets, stackSize, asmCode, rip>>

\* ------------------------------------------------------------------ bounds

\* integer literals of the generated programs are 0..MaxConst
MaxConst == 1
\* block items of a generated scope program, besides its inner block
MaxItems == 3

\* ------------------------------------------------------------ helpers

Max(S) == CHOOSE x \in S : \A y \in S : y <= x
Min(S) == CHOOSE x \in S : \A y \in S : x <= y

RECURSIVE SeqsOfLen(_, _)
SeqsOfLen(S, n) ==
    IF n = 0 THEN {<<>>}
    ELSE {Append(s, x) : s \in SeqsOfLen(S, n - 1), x \in S}

SeqsUpTo(S, n) == UNION {SeqsOfLen(S, k) : k \in 0..n}

\* --------------------------------------------------------------- the AST

\* a null unique_ptr<Expression> / unique_ptr<Statement>
NoExp == [type |-> "NULL"]
NoStmt == [type |-> "NULL"]

ExpConstant(v) == [type |-> "CONSTANT", value |-> v]
ExpUnary(unaryOp, expr) == [type |-> "UNARY", un_op |-> unaryOp, operand |-> expr]
ExpBinary(binaryOp, lhs, rhs) ==
    [type |-> "BINARY", bin_op |-> binaryOp, operand1 |-> lhs, operand2 |-> rhs]
ExpVar(id) == [type |-> "VAR", identifier |-> id]
ExpAssignment(lhs, rhs) == [type |-> "ASSIGNMENT", exp1 |-> lhs, exp2 |-> rhs]
ExpConditional(cond, tExpr, fExpr) ==
    [type |-> "CONDITIONAL", condition |-> cond, trueExpr |-> tExpr, falseExpr |-> fExpr]

Declaration(id, init) == [name |-> id, initializer |-> init]

ForInitDecl(d) == [type |-> "INIT_DECL", decl |-> d]
ForInitExp(e) == [type |-> "INIT_EXP", expr |-> e]

StmtReturn(expr) == [type |-> "RETURN", expression |-> expr]
StmtExpression(expr) == [type |-> "EXPRESSION", expression |-> expr]
StmtNull == [type |-> "NULL_STMT"]
StmtIf(cond, thenStmt, elseStmt) ==
    [type |-> "IF", condition |-> cond, thenBranch |-> thenStmt, elseBranch |-> elseStmt]
StmtCompound(b) == [type |-> "COMPOUND", block |-> b]
StmtLoop(t, cond, bodyStmt, lbl) ==
    [type |-> t, condition |-> cond, body |-> bodyStmt, label |-> lbl]
StmtFor(init, cond, post, bodyStmt, lbl) ==
    [type |-> "FOR", forInit |-> init, condition |-> cond, postExpr |-> post,
     body |-> bodyStmt, label |-> lbl]
StmtBreak(lbl) == [type |-> "BREAK", label |-> lbl]
StmtContinue(lbl) == [type |-> "CONTINUE", label |-> lbl]

ItemStatement(stmt) == [type |-> "STATEMENT", statement |-> stmt]
ItemDeclaration(d) == [type |-> "DECLARATION", declaration |-> d]

Function(id, b) == [name |-> id, body |-> b]

UnaryOps == {"COMPLEMENT", "NEGATE", "NOT"}
BinaryOps == {"ADD", "SUBTRACT", "MULTIPLY", "DIVIDE", "REMAINDER", "AND", "OR",
              "EQUAL", "NOTEQUAL", "LESSTHAN", "LESSEQ", "GREATERTHAN", "GREATEREQ"}

\* ------------------------------------------------------------- the lexer

\* struct Lex
Lex(w, t, p, l) == [word |-> w, token |-> t, position |-> p, line |-> l]

\* The source text is a sequence of characters; the word of a Lex is the
\* std::string made of the characters matched.
RECURSIVE Str(_)
Str(chars) == IF chars = <<>> THEN "" ELSE Head(chars) \o Str(Tail(chars))

\* the character classes of the regular expressions: \d, [a-zA-Z_], \w, \s
Digit == {"0", "1", "2", "3", "4", "5", "6", "7", "8", "9"}
Letter ==
    {"a", "b", "c", "d", "e", "f", "g", "h", "i", "j", "k", "l", "m", "n", "o", "p",
     "q", "r", "s", "t", "u", "v", "w", "x", "y", "z", "A", "B", "C", "D", "E", "F",
     "G", "H", "I", "J", "K", "L", "M", "N", "O", "P", "Q", "R", "S", "T", "U", "V",
     "W", "X", "Y", "Z", "_"}
WordChar == Letter \cup Digit
Space == {" ", "\t", "\n", "\r", "\f"}

\* the length of the longest run of characters from s[i] on that are in
\* class (within = TRUE) or are not in it (within = FALSE)
RECURSIVE Run(_, _, _, _)
Run(s, i, class, within) ==
    IF i > Len(s) \/ (s[i] \in class) # within THEN 0
    ELSE 1 + Run(s, i + 1, class, within)

\* s holds the characters of lit from s[i] on
StartsWith(s, i, lit) ==
    /\ i + Len(lit) - 1 <= Len(s)
    /\ \A k \in 1..Len(lit) : s[i + k - 1] = lit[k]

\* wordToToken: the fixed words in the order of the code, then the shapes
wordToToken(word) ==
    CASE word = <<"i", "n", "t">> -> "INT"
      [] word = <<"v", "o", "i", "d">> -> "VOID"
      [] word = <<"r", "e", "t", "u", "r", "n">> -> "RETURN"
      [] word = <<"(">> -> "OPARENTHESIS"
      [] word = <<")">> -> "CPARENTHESIS"
      [] word = <<"{">> -> "OBRACE"
      [] word = <<"}">> -> "CBRACE"
      [] word = <<";">> -> "SEMICOLON"
      [] word = <<"~">> -> "COMPLEMENT"
      [] word = <<"-", "-">> -> "DECREMENT"
      [] word = <<"-">> -> "NEGATION"
      [] word = <<"+">> -> "ADDITION"
      [] word = <<"*">> -> "MULTIPLICATION"
      [] word = <<"/">> -> "DIVISION"
      [] word = <<"%">> -> "REMAINDER"
      [] word = <<"&", "&">> -> "AND"
      [] word = <<"|", "|">> -> "OR"
      [] word = <<"=", "=">> -> "EQUAL"
      [] word = <<"!", "=">> -> "NOTEQUAL"
      [] word = <<"!">> -> "NOT"
      [] word = <<"<">> -> "LESS"
      [] word = <<">">> -> "GREATER"
      [] word = <<"<", "=">> -> "LESSEQ"
      [] word = <<">", "=">> -> "GREATEREQ"
      [] word = <<"=">> -> "ASSIGN"
      [] OTHER ->
            IF word # <<>> /\ Run(word, 1, Digit, TRUE) = Len(word) THEN "CONSTANT"
            ELSE IF word # <<>> /\ word[1] \in Letter
                    /\ Run(word, 1, WordChar, TRUE) = Len(word) THEN "IDENTIFIER"
            ELSE IF word # <<>> /\ Run(word, 1, Space, TRUE) = Len(word) THEN "SKIP"
            ELSE IF StartsWith(word, 1, <<"/", "/">>)
                    /\ Run(word, 1, {"\n"}, FALSE) = Len(word) THEN "COMMENT"
            ELSE IF Len(word) >= 4 /\ StartsWith(word, 1, <<"/", "*">>)
                    /\ StartsWith(word, Len(word) - 1, <<"*", "/">>)
                    /\ Run(word, 1, {"\n"}, FALSE) = Len(word) THEN "ML_COMMENT"
            ELSE "MISMATCH"

\* the patterns of lexer() in their priority order: a fixed word (lit) or a
\* shape (re), and the token of the pattern
patterns ==
    << [re |-> "#[^\\n]*", token |-> "SKIP"],
       [re |-> "//[^\\n]*", token |-> "COMMENT"],
       [re |-> "/\\*([^*]|\\*+[^*/])*\\*+/", token |-> "ML_COMMENT"],
       [lit |-> <<"(">>, token |-> "OPARENTHESIS"],
       [lit |-> <<")">>, token |-> "CPARENTHESIS"],
       [lit |-> <<"{">>, token |-> "OBRACE"],
       [lit |-> <<"}">>, token |-> "CBRACE"],
       [lit |-> <<";">>, token |-> "SEMICOLON"],
       [lit |-> <<"~">>, token |-> "COMPLEMENT"],
       [lit |-> <<"-", "-">>, token |-> "DECREMENT"],
       [lit |-> <<"-">>, token |-> "NEGATION"],
       [lit |-> <<"+">>, token |-> "ADDITION"],
       [lit |-> <<"*">>, token |-> "MULTIPLICATION"],
       [lit |-> <<"/">>, token |-> "DIVISION"],
       [lit |-> <<"%">>, token |-> "REMAINDER"],
       [lit |-> <<"&", "&">>, token |-> "AND"],
       [lit |-> <<"|", "|">>, token |-> "OR"],
       [lit |-> <<"=", "=">>, token |-> "EQUAL"],
       [lit |-> <<"!", "=">>, token |-> "NOTEQUAL"],
       [lit |-> <<"!">>, token |-> "NOT"],
       [lit |-> <<"<", "=">>, token |-> "LESSEQ"],
       [lit |-> <<">", "=">>, token |-> "GREATEREQ"],
       [lit |-> <<"<">>, token |-> "LESS"],
       [lit |-> <<">">>, token |-> "GREATER"],
       [re |-> "\\d+[a-zA-Z_]\\w*", token |-> "MISMATCH"],
       [re |-> "[a-zA-Z_]\\w*", token |-> "IDENTIFIER"],
       [re |-> "\\d+", token |-> "CONSTANT"],
       [re |-> "\\s+", token |-> "SKIP"],
       [lit |-> <<"=">>, token |-> "ASSIGN"],
       [re |-> "\\S", token |-> "MISMATCH"] >>

\* where the first "*/" at or after s[i] starts, 0 if there is none
CommentEnd(s, i) ==
    IF \E j \in i..(Len(s) - 1) : StartsWith(s, j, <<"*", "/">>)
    THEN Min({j \in i..(Len(s) - 1) : StartsWith(s, j, <<"*", "/">>)})
    ELSE 0

\* std::regex_search(input, match, regex) with the anchored pattern p, the
\* input being s from s[i] on: the length of match.str(0), 0 if no match
MatchLength(p, s, i) ==
    IF "lit" \in DOMAIN p
    THEN IF StartsWith(s, i, p.lit) THEN Len(p.lit) ELSE 0
    ELSE CASE p.re = "#[^\\n]*" ->
                IF s[i] = "#" THEN 1 + Run(s, i + 1, {"\n"}, FALSE) ELSE 0
           [] p.re = "//[^\\n]*" ->
                IF StartsWith(s, i, <<"/", "/">>)
                THEN 2 + Run(s, i + 2, {"\n"}, FALSE) ELSE 0
           [] p.re = "/\\*([^*]|\\*+[^*/])*\\*+/" ->
                IF StartsWith(s, i, <<"/", "*">>) /\ CommentEnd(s, i + 2) # 0
                THEN CommentEnd(s, i + 2) + 2 - i ELSE 0
           [] p.re = "\\d+[a-zA-Z_]\\w*" ->
                IF /\ Run(s, i, Digit, TRUE) > 0
                   /\ i + Run(s, i, Digit, TRUE) <= Len(s)
                   /\ s[i + Run(s, i, Digit, TRUE)] \in Letter
                THEN Run(s, i, WordChar, TRUE) ELSE 0
           [] p.re = "[a-zA-Z_]\\w*" ->
                IF s[i] \in Letter THEN Run(s, i, WordChar, TRUE) ELSE 0
           [] p.re = "\\d+" -> Run(s, i, Digit, TRUE)
           [] p.re = "\\s+" -> Run(s, i, Space, TRUE)
           [] p.re = "\\S" -> IF s[i] \in Space THEN 0 ELSE 1

\* the number of '\n' in a matched text
Newlines(chars) == Cardinality({k \in DOMAIN chars : chars[k] = "\n"})

\* the tokens that are dropped from the output
isSkippedNever(tokenType) == FALSE

isSkipped(tokenType) == tokenType \in {"SKIP", "COMMENT", "ML_COMMENT"}

LexicalError(token, lineNumber, position) ==
    "Lexical error: invalid token '" \o Str(token) \o "' at line "
        \o ToString(lineNumber) \o ", position " \o ToString(position)

\* the token kind stored: identifiers, constants and mismatches are
\* classified again by wordToToken
actualToken(tokenType, token) ==
    IF tokenType \in {"IDENTIFIER", "CONSTANT", "MISMATCH"}
    THEN wordToToken(token) ELSE tokenType

\* lexer(), the while (!input.empty()) loop: the input is s from s[i] on
RECURSIVE lexerLoop(_, _, _, _)

\* the body of the for loop at the first pattern that matched, whose token
\* is tokenType and whose match.str(0) is token
lexerMatched(s, i, lexemes, lineNumber, tokenType, token) ==
    IF isSkipped(tokenType)
    THEN lexerLoop(s, i + Len(token), lexemes, lineNumber + Newlines(token))
    ELSE IF actualToken(tokenType, token) = "MISMATCH"
    THEN [err |-> LexicalError(token, lineNumber, Len(lexemes)), lexemes |-> lexemes]
    ELSE lexerLoop(s, i + Len(token),
                   Append(lexemes, Lex(Str(token), actualToken(tokenType, token),
                                       Len(lexemes), lineNumber)),
                   lineNumber + Newlines(token))

\* the patterns that match the input at s[i]
Matching(s, i) == {k \in DOMAIN patterns : MatchLength(patterns[k], s, i) > 0}

\* the for loop over the patterns stops at the first one that matches
lexerPatterns(s, i, lexemes, lineNumber, matching) ==
    IF matching = {}
    THEN [err |-> "Lexical error: could not match input at line "
                      \o ToString(lineNumber) \o ", position "
                      \o ToString(Len(lexemes)),
          lexemes |-> lexemes]
    ELSE lexerMatched(s, i, lexemes, lineNumber, patterns[Min(matching)].token,
                      SubSeq(s, i, i + MatchLength(patterns[Min(matching)], s, i) - 1))

lexerLoop(s, i, lexemes, lineNumber) ==
    IF i > Len(s) THEN [err |-> "", lexemes |-> lexemes]
    ELSE lexerPatterns(s, i, lexemes, lineNumber, Matching(s, i))

\* removes every '\r'
NormalizeNewlines(text) == SelectSeq(text, LAMBDA c : c # "\r")

lexer(text) == lexerLoop(NormalizeNewlines(text), 1, <<>>, 1)

\* ------------------------------------------------------------ the parser

\* what peek() and advance() return past the last token: Lex{"", MISMATCH, -1},
\* whose fourth member, line, is value-initialized
EndOfTokens == Lex("", "MISMATCH", -1, 0)

\* Parser::error: the message of the std::runtime_error thrown
ParseError(message, token) ==
    "Parse error at line " \o ToString(token.line) \o ": " \o message

\* tokens[current], current counted from 0 as in the code
peek(toks, current) ==
    IF current < Len(toks) THEN toks[current + 1] ELSE EndOfTokens

\* The result of a parse function: the message thrown ("" if none), the
\* parser's current afterwards and the node built.
Thrown(msg, current) == [err |-> msg, current |-> current, node |-> NoExp]
Parsed(n, current) == [err |-> "", current |-> current, node |-> n]

\* expect(expected, errorMsg) after the parse that gave r; r's node is kept
expect(toks, r, expected, errorMsg) ==
    IF r.err # "" THEN r
    ELSE IF peek(toks, r.current).token # expected
         THEN Thrown(ParseError(errorMsg, peek(toks, r.current)), r.current)
         ELSE Parsed(r.node, r.current + 1)

\* the node of a finished parse replaced by n
Built(r, n) == IF r.err # "" THEN r ELSE Parsed(n, r.current)

\* the node of a finished parse put into the node that holds it
Wrapped(r, holder, name) ==
    IF r.err # "" THEN r
    ELSE Parsed(CASE holder = "Declaration" -> Declaration(name, r.node)
                  [] holder = "ForInitDecl" -> ForInitDecl(r.node)
                  [] holder = "ForInitExp" -> ForInitExp(r.node)
                  [] holder = "Compound" -> StmtCompound(r.node)
                  [] holder = "ItemDeclaration" -> ItemDeclaration(r.node)
                  [] holder = "ItemStatement" -> ItemStatement(r.node)
                  [] holder = "Function" -> Function(name, r.node),
                r.current)

\* std::stoi on the digits of a CONSTANT token
MaxLiteral == 9
stoi(word) == CHOOSE n \in 0..MaxLiteral : ToString(n) = word

\* getPrecedence with the levels of `+ -` and `* / %` exchanged
getPrecedenceAdditiveFirst(token) ==
    CASE token \in {"ADDITION", "NEGATION"} -> 50
      [] token \in {"MULTIPLICATION", "DIVISION", "REMAINDER"} -> 45
      [] token \in {"LESS", "LESSEQ", "GREATER", "GREATEREQ"} -> 35
      [] token \in {"EQUAL", "NOTEQUAL"} -> 30
      [] token = "AND" -> 10
      [] token = "OR" -> 5
      [] token = "QUESTION_MARK" -> 3
      [] token = "ASSIGN" -> 1
      [] OTHER -> -1

getPrecedence(token) ==
    CASE token \in {"ADDITION", "NEGATION"} -> 45
      [] token \in {"MULTIPLICATION", "DIVISION", "REMAINDER"} -> 50
      [] token \in {"LESS", "LESSEQ", "GREATER", "GREATEREQ"} -> 35
      [] token \in {"EQUAL", "NOTEQUAL"} -> 30
      [] token = "AND" -> 10
      [] token = "OR" -> 5
      [] token = "QUESTION_MARK" -> 3
      [] token = "ASSIGN" -> 1
      [] OTHER -> -1

tokenToBinaryOp(token) ==
    CASE token = "ADDITION" -> "ADD"
      [] token = "NEGATION" -> "SUBTRACT"
      [] token = "MULTIPLICATION" -> "MULTIPLY"
      [] token = "DIVISION" -> "DIVIDE"
      [] token = "REMAINDER" -> "REMAINDER"
      [] token = "AND" -> "AND"
      [] token = "OR" -> "OR"
      [] token = "EQUAL" -> "EQUAL"
      [] token = "NOTEQUAL" -> "NOTEQUAL"
      [] token = "LESS" -> "LESSTHAN"
      [] token = "LESSEQ" -> "LESSEQ"
      [] token = "GREATER" -> "GREATERTHAN"
      [] token = "GREATEREQ" -> "GREATEREQ"

tokenToUnaryOp(token) ==
    CASE token = "COMPLEMENT" -> "COMPLEMENT"
      [] token = "NEGATION" -> "NEGATE"
      [] token = "NOT" -> "NOT"

RECURSIVE parseExpression(_, _, _)
RECURSIVE parseFactor(_, _)
RECURSIVE parseExpressionLoop(_, _, _)

\* parseFactor, a unary operator: operand is the parsed factor after it
parseUnaryFactor(unop, operand) ==
    IF operand.err # "" THEN operand
    ELSE Parsed(ExpUnary(unop, operand.node), operand.current)

parseFactor(toks, current) ==
    CASE peek(toks, current).token = "CONSTANT" ->
            Parsed(ExpConstant(stoi(peek(toks, current).word)), current + 1)
      [] peek(toks, current).token = "IDENTIFIER" ->
            Parsed(ExpVar(peek(toks, current).word), current + 1)
      [] peek(toks, current).token \in {"COMPLEMENT", "NEGATION", "NOT"} ->
            parseUnaryFactor(tokenToUnaryOp(peek(toks, current).token),
                             parseFactor(toks, current + 1))
      [] peek(toks, current).token = "OPARENTHESIS" ->
            expect(toks, parseExpression(toks, current + 1, 0), "CPARENTHESIS",
                   "Expected ')' after expression")
      [] OTHER ->
            Thrown(ParseError("Unexpected token in expression: "
                                  \o peek(toks, current).word,
                              peek(toks, current)), current)

\* parseExpression, the loop after `right` was parsed: an Assign for `=`,
\* a Binary for any other operator, and the loop goes on
parseRight(toks, left, op, right, minPrecedence) ==
    IF right.err # "" THEN right
    ELSE parseExpressionLoop(
             toks,
             Parsed(IF op = "ASSIGN"
                    THEN ExpAssignment(left.node, right.node)
                    ELSE ExpBinary(tokenToBinaryOp(op), left.node, right.node),
                    right.current),
             minPrecedence)

\* parseExpression, `?` consumed and both branches parsed
parseConditionalEnd(toks, left, trueExpr, falseExpr, minPrecedence) ==
    IF falseExpr.err # "" THEN falseExpr
    ELSE parseExpressionLoop(
             toks,
             Parsed(ExpConditional(left.node, trueExpr.node, falseExpr.node),
                    falseExpr.current),
             minPrecedence)

\* parseExpression, `?` consumed and the true branch parsed
parseConditional(toks, left, trueExpr, minPrecedence) ==
    IF trueExpr.err # "" THEN trueExpr
    ELSE IF peek(toks, trueExpr.current).token # "COLON"
         THEN Thrown(ParseError("Expected ':' in conditional expression",
                                peek(toks, trueExpr.current)), trueExpr.current)
         ELSE parseConditionalEnd(toks, left, trueExpr,
                                  parseExpression(toks, trueExpr.current + 1, 1),
                                  minPrecedence)

\* parseExpression, the while (true) loop: left is the expression so far
parseExpressionLoop(toks, left, minPrecedence) ==
    IF left.err # "" THEN left
    ELSE IF peek(toks, left.current).token = "QUESTION_MARK"
    THEN IF minPrecedence > getPrecedence("QUESTION_MARK") THEN left
         ELSE parseConditional(toks, left,
                               parseExpression(toks, left.current + 1, 1),
                               minPrecedence)
    ELSE IF getPrecedence(peek(toks, left.current).token) < minPrecedence THEN left
    ELSE IF peek(toks, left.current).token = "ASSIGN"
    THEN parseRight(toks, left, "ASSIGN",
                    parseExpression(toks, left.current + 1, getPrecedence("ASSIGN")),
                    minPrecedence)
    ELSE parseRight(toks, left, peek(toks, left.current).token,
                    parseExpression(toks, left.current + 1,
                        getPrecedence(peek(toks, left.current).token) + 1),
                    minPrecedence)

\* parseExpression with a threshold of 1 raised above the level of `=`
parseExpressionAboveAssign(toks, current, minPrecedence) ==
    parseExpressionLoop(toks, parseFactor(toks, current),
                        IF minPrecedence = 1 THEN 2 ELSE minPrecedence)

parseExpression(toks, current, minPrecedence) ==
    parseExpressionLoop(toks, parseFactor(toks, current), minPrecedence)

\* `int` consumed: the identifier, the optional initializer and the `;` of a
\* declaration (parseBlockItem and parseForInit differ in the messages)
parseInitializer(toks, name, current) ==
    IF peek(toks, current).token = "ASSIGN"
    THEN Wrapped(parseExpression(toks, current + 1, 0), "Declaration", name)
    ELSE Parsed(Declaration(name, NoExp), current)

parseDeclaration(toks, current, identifierMsg, semicolonMsg) ==
    IF peek(toks, current).token # "IDENTIFIER"
    THEN Thrown(ParseError(identifierMsg, peek(toks, current)), current)
    ELSE expect(toks, parseInitializer(toks, peek(toks, current).word, current + 1),
                "SEMICOLON", semicolonMsg)

parseForInitExp(toks, current) ==
    IF peek(toks, current).token # "SEMICOLON"
    THEN parseExpression(toks, current, 0)
    ELSE Parsed(NoExp, current)

parseForInit(toks, current) ==
    IF peek(toks, current).token = "INT"
    THEN Wrapped(parseDeclaration(toks, current + 1,
                                  "Expected identifier in for-loop declaration",
                                  "Expected ';' after for-loop declaration"),
                 "ForInitDecl", "")
    ELSE Wrapped(expect(toks, parseForInitExp(toks, current), "SEMICOLON",
                        "Expected ';' after for-loop init expression"),
                 "ForInitExp", "")

RECURSIVE parseStatement(_, _)
RECURSIVE parseBlock(_, _, _)

\* parseStatement, `if`: the else branch, if there is one
parseElse(toks, condition, thenStmt, elseStmt) ==
    Built(elseStmt, StmtIf(condition.node, thenStmt.node, elseStmt.node))

parseThen(toks, condition, thenStmt) ==
    IF thenStmt.err # "" THEN thenStmt
    ELSE IF peek(toks, thenStmt.current).token = "ELSE"
         THEN parseElse(toks, condition, thenStmt,
                        parseStatement(toks, thenStmt.current + 1))
         ELSE Parsed(StmtIf(condition.node, thenStmt.node, NoStmt), thenStmt.current)

\* parseStatement, `if` and `while`: `(` condition `)` parsed into condition
parseIf(toks, condition) ==
    IF condition.err # "" THEN condition
    ELSE parseThen(toks, condition, parseStatement(toks, condition.current))

parseWhileBody(condition, bodyStmt) ==
    Built(bodyStmt, StmtLoop("WHILE", condition.node, bodyStmt.node, ""))

parseWhile(toks, condition) ==
    IF condition.err # "" THEN condition
    ELSE parseWhileBody(condition, parseStatement(toks, condition.current))

\* `(` expression `)` from current on, as if, while and do-while read it
parseParenthesized(toks, parenthesis, closingMsg) ==
    IF parenthesis.err # "" THEN parenthesis
    ELSE expect(toks, parseExpression(toks, parenthesis.current, 0), "CPARENTHESIS",
                closingMsg)

parseCondition(toks, r, parenthesisMsg, closingMsg) ==
    parseParenthesized(toks, expect(toks, r, "OPARENTHESIS", parenthesisMsg),
                       closingMsg)

\* parseStatement, `do`: the body parsed, then `while (condition);`
parseDoCondition(toks, bodyStmt, condition) ==
    Built(expect(toks, condition, "SEMICOLON", "Expected ';' after do-while loop"),
          StmtLoop("DO_WHILE", condition.node, bodyStmt.node, ""))

parseDo(toks, bodyStmt) ==
    parseDoCondition(toks, bodyStmt,
                     parseCondition(toks,
                                    expect(toks, bodyStmt, "WHILE",
                                           "Expected 'while' after 'do' body"),
                                    "Expected '(' after 'while'",
                                    "Expected ')' after condition"))

\* parseStatement, `for`: the clauses one after the other, then the body
parseForBody(init, condition, post, bodyStmt) ==
    Built(bodyStmt, StmtFor(init.node, condition.node, post.node, bodyStmt.node, ""))

parseForClauses(toks, init, condition, post) ==
    IF post.err # "" THEN post
    ELSE parseForBody(init, condition, post, parseStatement(toks, post.current))

parseForPost(toks, init, condition) ==
    IF condition.err # "" THEN condition
    ELSE parseForClauses(
             toks, init, condition,
             expect(toks,
                    IF peek(toks, condition.current).token # "CPARENTHESIS"
                    THEN parseExpression(toks, condition.current, 0)
                    ELSE Parsed(NoExp, condition.current),
                    "CPARENTHESIS", "Expected ')' after for-loop clauses"))

parseForCondition(toks, init) ==
    IF init.err # "" THEN init
    ELSE parseForPost(
             toks, init,
             IF peek(toks, init.current).token = "SEMICOLON"
             THEN Parsed(NoExp, init.current + 1)
             ELSE expect(toks, parseExpression(toks, init.current, 0), "SEMICOLON",
                         "Expected ';' after for-loop condition"))

parseFor(toks, parenthesis) ==
    IF parenthesis.err # "" THEN parenthesis
    ELSE parseForCondition(toks, parseForInit(toks, parenthesis.current))

\* a statement that is an expression and a `;`
parseExpressionStatement(r, type) ==
    Built(r, IF type = "RETURN" THEN StmtReturn(r.node) ELSE StmtExpression(r.node))

parseStatement(toks, current) ==
    CASE peek(toks, current).token = "RETURN" ->
            parseExpressionStatement(
                expect(toks, parseExpression(toks, current + 1, 0), "SEMICOLON",
                       "Expected ';' after return expression"), "RETURN")
      [] peek(toks, current).token = "BREAK" ->
            expect(toks, Parsed(StmtBreak(""), current + 1), "SEMICOLON",
                   "Expected ';' after 'break'")
      [] peek(toks, current).token = "CONTINUE" ->
            expect(toks, Parsed(StmtContinue(""), current + 1), "SEMICOLON",
                   "Expected ';' after 'continue'")
      [] peek(toks, current).token = "IF" ->
            parseIf(toks, parseCondition(toks, Parsed(NoExp, current + 1),
                                         "Expected '(' after 'if'",
                                         "Expected ')' after condition"))
      [] peek(toks, current).token = "WHILE" ->
            parseWhile(toks, parseCondition(toks, Parsed(NoExp, current + 1),
                                            "Expected '(' after 'while'",
                                            "Expected ')' after while condition"))
      [] peek(toks, current).token = "DO" ->
            parseDo(toks, parseStatement(toks, current + 1))
      [] peek(toks, current).token = "FOR" ->
            parseFor(toks, expect(toks, Parsed(NoExp, current + 1), "OPARENTHESIS",
                                  "Expected '(' after 'for'"))
      [] peek(toks, current).token = "OBRACE" ->
            Wrapped(parseBlock(toks, current + 1, <<>>), "Compound", "")
      [] peek(toks, current).token = "SEMICOLON" ->
            Parsed(StmtNull, current + 1)
      [] OTHER ->
            parseExpressionStatement(
                expect(toks, parseExpression(toks, current, 0), "SEMICOLON",
                       "Expected ';' after expression statement"), "EXPRESSION")

parseBlockItem(toks, current) ==
    IF peek(toks, current).token = "INT"
    THEN Wrapped(parseDeclaration(toks, current + 1,
                                  "Expected identifier after 'int'",
                                  "Expected ';' after declaration"),
                 "ItemDeclaration", "")
    ELSE Wrapped(parseStatement(toks, current), "ItemStatement", "")

\* parseBlock, the loop after an item was parsed
parseBlockNext(toks, items, item) ==
    IF item.err # "" THEN item
    ELSE parseBlock(toks, item.current, Append(items, item.node))

\* parseBlock, with the items read so far; the `{` is consumed by the caller
parseBlock(toks, current, items) ==
    IF peek(toks, current).token = "CBRACE" THEN Parsed(items, current + 1)
    ELSE IF current >= Len(toks)
         THEN Thrown("Unexpected end of input. Expected '}' to close block.", current)
         ELSE parseBlockNext(toks, items, parseBlockItem(toks, current))

\* parseFunction: `int` name `( void ) {` and the body
parseFunctionBody(toks, header, name) ==
    IF header.err # "" THEN header
    ELSE Wrapped(parseBlock(toks, header.current, <<>>), "Function", name)

parseFunction(toks) ==
    parseFunctionBody(
        toks,
        expect(toks,
          expect(toks,
            expect(toks,
              expect(toks,
                expect(toks,
                  expect(toks, Parsed(NoExp, 0), "INT", "Expected 'int' at function start"),
                  "IDENTIFIER", "Expected function name"),
                "OPARENTHESIS", "Expected '(' after function name"),
              "VOID", "Expected 'void' in parameter list"),
            "CPARENTHESIS", "Expected ')' after 'void'"),
          "OBRACE", "Expected '{' to begin function body"),
        peek(toks, 1).word)

\* parseProgram: one function, then no token may be left
parseProgramEnd(toks, func) ==
    IF func.err # "" THEN func
    ELSE IF peek(toks, func.current).token # "MISMATCH"
         THEN Thrown(ParseError("Unexpected token after function",
                                peek(toks, func.current)), func.current)
         ELSE func

parseProgram(toks) == parseProgramEnd(toks, parseFunction(toks))

\* ---------------------------------------------------------- the resolver

\* generateUniqueName: the name, and the static counter after counter++
\* a name made from the counter, which is left as it was
generateUniqueNameSameCounter(baseName, c) ==
    [name |-> baseName \o "_" \o ToString(c), counter |-> c]

generateUniqueName(baseName, c) ==
    [name |-> baseName \o "_" \o ToString(c), counter |-> c + 1]

EmptyVarMap == [n \in {} |-> ""]

\* the scopes that declare name, as indices of the stack (1 is the outermost)
DeclaringScopes(name, scopes) ==
    {i \in 1..Len(scopes) : name \in DOMAIN scopes[i]}

\* a lookup that stops at the outermost scope holding name
resolve_variable_nameOutermost(name, scopes) ==
    IF DeclaringScopes(name, scopes) = {}
    THEN [err |-> "Use of undeclared variable", name |-> ""]
    ELSE [err |-> "", name |-> scopes[Min(DeclaringScopes(name, scopes))][name]]

\* the reverse iteration rbegin..rend stops at the innermost scope holding name
resolve_variable_name(name, scopes) ==
    IF DeclaringScopes(name, scopes) = {}
    THEN [err |-> "Use of undeclared variable", name |-> ""]
    ELSE [err |-> "", name |-> scopes[Max(DeclaringScopes(name, scopes))][name]]

ExpError(msg) == [err |-> msg, exp |-> NoExp]
ExpOk(e) == [err |-> "", exp |-> e]

RECURSIVE resolve_exp(_, _)

\* an ASSIGNMENT case that resolves its left-hand side as any expression
resolve_assignmentAnyLhs(expr, scopes) ==
    LET lhs == resolve_exp(expr.exp1, scopes)
    IN  IF lhs.err # "" THEN lhs
        ELSE LET rhs == resolve_exp(expr.exp2, scopes)
             IN  IF rhs.err # "" THEN rhs
                 ELSE ExpOk(ExpAssignment(lhs.exp, rhs.exp))

\* resolve_exp, case ASSIGNMENT: the left-hand side must be a Var
resolve_assignment(expr, scopes) ==
    IF expr.exp1.type # "VAR"
    THEN ExpError("Left-hand side of assignment must be a variable")
    ELSE LET r == resolve_variable_name(expr.exp1.identifier, scopes)
         IN  IF r.err # "" THEN ExpError(r.err)
             ELSE LET rhs == resolve_exp(expr.exp2, scopes)
                  IN  IF rhs.err # "" THEN rhs
                      ELSE ExpOk(ExpAssignment(ExpVar(r.name), rhs.exp))

resolve_exp(expr, scopes) ==
    CASE expr.type = "CONSTANT" -> ExpOk(ExpConstant(expr.value))
      [] expr.type = "VAR" ->
            LET r == resolve_variable_name(expr.identifier, scopes)
            IN  IF r.err # "" THEN ExpError(r.err) ELSE ExpOk(ExpVar(r.name))
      [] expr.type = "UNARY" ->
            LET sub == resolve_exp(expr.operand, scopes)
            IN  IF sub.err # "" THEN sub ELSE ExpOk(ExpUnary(expr.un_op, sub.exp))
      [] expr.type = "BINARY" ->
            LET left == resolve_exp(expr.operand1, scopes)
            IN  IF left.err # "" THEN left
                ELSE LET right == resolve_exp(expr.operand2, scopes)
                     IN  IF right.err # "" THEN right
                         ELSE ExpOk(ExpBinary(expr.bin_op, left.exp, right.exp))
      [] expr.type = "ASSIGNMENT" -> resolve_assignment(expr, scopes)
      [] expr.type = "CONDITIONAL" ->
            LET cond == resolve_exp(expr.condition, scopes)
            IN  IF cond.err # "" THEN cond
                ELSE LET thenExpr == resolve_exp(expr.trueExpr, scopes)
                     IN  IF thenExpr.err # "" THEN thenExpr
                         ELSE LET elseExpr == resolve_exp(expr.falseExpr, scopes)
                              IN  IF elseExpr.err # "" THEN elseExpr
                                  ELSE ExpOk(ExpConditional(cond.exp, thenExpr.exp,
                                                            elseExpr.exp))
      [] OTHER -> ExpError("Unknown expression type in semantic validation")

\* The result of resolving a declaration, a statement or a block: the error
\* thrown ("" if none), the static counter and the scope stack afterwards
\* and the rewritten node.  After a throw the node is the one given: the
\* exception unwinds to the driver, which drops the AST.
Resolved(e, c, scopes, n) == [err |-> e, counter |-> c, scopes |-> scopes, node |-> n]

\* the tail of resolve_declaration: init is the resolved initializer
resolve_initializer(decl, u, declared, init) ==
    IF init.err # ""
    THEN Resolved(init.err, u.counter, declared, decl)
    ELSE Resolved("", u.counter, declared, Declaration(u.name, init.exp))

\* resolve_declaration looking for the name in every scope of the stack
resolve_declarationAnyScope(decl, scopes, c) ==
    IF DeclaringScopes(decl.name, scopes) # {}
    THEN Resolved("Variable is already declared in this scope", c, scopes, decl)
    ELSE LET u == generateUniqueName(decl.name, c)
             declared == [scopes EXCEPT ![Len(scopes)] = (decl.name :> u.name) @@ @]
         IN  IF decl.initializer = NoExp
             THEN Resolved("", u.counter, declared, Declaration(u.name, NoExp))
             ELSE resolve_initializer(decl, u, declared,
                                      resolve_exp(decl.initializer, declared))

resolve_declaration(decl, scopes, c) ==
    IF decl.name \in DOMAIN scopes[Len(scopes)]
    THEN Resolved("Variable is already declared in this scope", c, scopes, decl)
    ELSE LET u == generateUniqueName(decl.name, c)
             declared == [scopes EXCEPT ![Len(scopes)] = (decl.name :> u.name) @@ @]
         IN  IF decl.initializer = NoExp
             THEN Resolved("", u.counter, declared, Declaration(u.name, NoExp))
             ELSE resolve_initializer(decl, u, declared,
                                      resolve_exp(decl.initializer, declared))

RECURSIVE resolve_statement(_, _, _, _)
RECURSIVE resolve_items(_, _, _, _, _)
RECURSIVE resolve_block(_, _, _, _)

\* the RETURN / EXPRESSION arm: e is the resolved expression
resolve_expression_statement(stmt, e, scopes, c) ==
    IF e.err # "" THEN Resolved(e.err, c, scopes, stmt)
    ELSE Resolved("", c, scopes, [stmt EXCEPT !.expression = e.exp])

\* the IF arm, in the order of the code: condition, then branch, else branch
resolve_if_else(stmt, cond, t, e) ==
    IF e.err # "" THEN Resolved(e.err, e.counter, e.scopes, stmt)
    ELSE Resolved("", e.counter, e.scopes, StmtIf(cond.exp, t.node, e.node))

resolve_if_then(stmt, cond, t, currentLoopLabel) ==
    IF t.err # "" THEN Resolved(t.err, t.counter, t.scopes, stmt)
    ELSE IF stmt.elseBranch = NoStmt
         THEN Resolved("", t.counter, t.scopes, StmtIf(cond.exp, t.node, NoStmt))
         ELSE resolve_if_else(stmt, cond, t,
                  resolve_statement(stmt.elseBranch, t.scopes, t.counter,
                                    currentLoopLabel))

resolve_if(stmt, cond, scopes, c, currentLoopLabel) ==
    IF cond.err # "" THEN Resolved(cond.err, c, scopes, stmt)
    ELSE resolve_if_then(stmt, cond,
             resolve_statement(stmt.thenBranch, scopes, c, currentLoopLabel),
             currentLoopLabel)

\* the COMPOUND arm: b is the resolved block
resolve_compound(stmt, b) ==
    IF b.err # "" THEN Resolved(b.err, b.counter, b.scopes, stmt)
    ELSE Resolved("", b.counter, b.scopes, StmtCompound(b.node))

\* the WHILE / DO_WHILE arm, loopLabel already generated: condition, body
resolve_while_body(stmt, cond, b, loopLabel) ==
    IF b.err # "" THEN Resolved(b.err, b.counter, b.scopes, stmt)
    ELSE Resolved("", b.counter, b.scopes,
                  StmtLoop(stmt.type, cond.exp, b.node, loopLabel))

\* the WHILE / DO_WHILE arm with the body resolved outside of any loop
resolve_whileNoLabel(stmt, cond, scopes, c, loopLabel) ==
    IF cond.err # "" THEN Resolved(cond.err, c, scopes, stmt)
    ELSE resolve_while_body(stmt, cond,
             resolve_statement(stmt.body, scopes, c, ""), loopLabel)

resolve_while(stmt, cond, scopes, c, loopLabel) ==
    IF cond.err # "" THEN Resolved(cond.err, c, scopes, stmt)
    ELSE resolve_while_body(stmt, cond,
             resolve_statement(stmt.body, scopes, c, loopLabel), loopLabel)

\* the FOR arm, loopLabel already generated: a scope is pushed, then the
\* init, the condition, the post expression and the body are resolved in
\* that scope, which is popped at the end
resolve_for_body(stmt, init, cond, post, b, loopLabel) ==
    IF b.err # "" THEN Resolved(b.err, b.counter, b.scopes, stmt)
    ELSE Resolved("", b.counter, SubSeq(b.scopes, 1, Len(b.scopes) - 1),
                  StmtFor(init.node, cond.exp, post.exp, b.node, loopLabel))

resolve_for_post(stmt, init, cond, post, loopLabel) ==
    IF post.err # "" THEN Resolved(post.err, init.counter, init.scopes, stmt)
    ELSE resolve_for_body(stmt, init, cond, post,
             resolve_statement(stmt.body, init.scopes, init.counter, loopLabel),
             loopLabel)

resolve_for_condition(stmt, init, cond, loopLabel) ==
    IF cond.err # "" THEN Resolved(cond.err, init.counter, init.scopes, stmt)
    ELSE resolve_for_post(stmt, init, cond,
             IF stmt.postExpr # NoExp
             THEN resolve_exp(stmt.postExpr, init.scopes) ELSE ExpOk(NoExp),
             loopLabel)

resolve_for_init(stmt, init, loopLabel) ==
    IF init.err # "" THEN Resolved(init.err, init.counter, init.scopes, stmt)
    ELSE resolve_for_condition(stmt, init,
             IF stmt.condition # NoExp
             THEN resolve_exp(stmt.condition, init.scopes) ELSE ExpOk(NoExp),
             loopLabel)

resolve_for_init_decl(d) == Resolved(d.err, d.counter, d.scopes, ForInitDecl(d.node))

resolve_for_init_exp(e, scopes, c) == Resolved(e.err, c, scopes, ForInitExp(e.exp))

\* the FOR arm with a copy of the innermost scope pushed in place of an
\* empty one
resolve_forCopiedScope(stmt, scopes, c, loopLabel) ==
    resolve_for_init(stmt,
        IF stmt.forInit.type = "INIT_DECL"
        THEN resolve_for_init_decl(
                 resolve_declaration(stmt.forInit.decl,
                                     Append(scopes, scopes[Len(scopes)]), c))
        ELSE IF stmt.forInit.expr # NoExp
             THEN resolve_for_init_exp(
                      resolve_exp(stmt.forInit.expr, Append(scopes, scopes[Len(scopes)])),
                      Append(scopes, scopes[Len(scopes)]), c)
             ELSE Resolved("", c, Append(scopes, scopes[Len(scopes)]), stmt.forInit),
        loopLabel)

resolve_for(stmt, scopes, c, loopLabel) ==
    resolve_for_init(stmt,
        IF stmt.forInit.type = "INIT_DECL"
        THEN resolve_for_init_decl(
                 resolve_declaration(stmt.forInit.decl, Append(scopes, EmptyVarMap), c))
        ELSE IF stmt.forInit.expr # NoExp
             THEN resolve_for_init_exp(
                      resolve_exp(stmt.forInit.expr, Append(scopes, EmptyVarMap)),
                      Append(scopes, EmptyVarMap), c)
             ELSE Resolved("", c, Append(scopes, EmptyVarMap), stmt.forInit),
        loopLabel)

\* the loop arms of resolve_statement: l is the generated loop label
resolve_loop(stmt, scopes, l) ==
    IF stmt.type = "FOR"
    THEN resolve_for(stmt, scopes, l.counter, l.name)
    ELSE resolve_while(stmt, resolve_exp(stmt.condition, scopes), scopes,
                       l.counter, l.name)

resolve_statement(stmt, scopes, c, currentLoopLabel) ==
    CASE stmt.type \in {"RETURN", "EXPRESSION"} ->
            resolve_expression_statement(stmt, resolve_exp(stmt.expression, scopes),
                                         scopes, c)
      [] stmt.type = "NULL_STMT" -> Resolved("", c, scopes, stmt)
      [] stmt.type = "IF" ->
            resolve_if(stmt, resolve_exp(stmt.condition, scopes), scopes, c,
                       currentLoopLabel)
      [] stmt.type = "COMPOUND" ->
            resolve_compound(stmt,
                resolve_block(stmt.block, scopes, c, currentLoopLabel))
      [] stmt.type \in {"WHILE", "DO_WHILE", "FOR"} ->
            resolve_loop(stmt, scopes, generateUniqueName("loop", c))
      [] stmt.type \in {"BREAK", "CONTINUE"} ->
            IF currentLoopLabel = ""
            THEN Resolved("break/continue used outside of a loop", c, scopes, stmt)
            ELSE Resolved("", c, scopes, [stmt EXCEPT !.label = currentLoopLabel])
      [] OTHER -> Resolved("Unsupported statement type", c, scopes, stmt)

\* one turn of the loop of resolve_block: r is the resolved item i
resolve_item(items, i, done, r, currentLoopLabel) ==
    IF r.err # "" THEN Resolved(r.err, r.counter, r.scopes, items)
    ELSE resolve_items(items, i + 1,
             Append(done, IF items[i].type = "DECLARATION"
                          THEN ItemDeclaration(r.node) ELSE ItemStatement(r.node)),
             r, currentLoopLabel)

\* the loop of resolve_block over block->items, from item i on; done holds
\* the items already rewritten
resolve_items(items, i, done, st, currentLoopLabel) ==
    IF i > Len(items) THEN Resolved("", st.counter, st.scopes, done)
    ELSE resolve_item(items, i, done,
             IF items[i].type = "DECLARATION"
             THEN resolve_declaration(items[i].declaration, st.scopes, st.counter)
             ELSE resolve_statement(items[i].statement, st.scopes, st.counter,
                                    currentLoopLabel),
             currentLoopLabel)

\* the scope pushed by resolve_block is popped when its items are done
pop_scope(r) ==
    IF r.err # "" THEN r
    ELSE Resolved("", r.counter, SubSeq(r.scopes, 1, Len(r.scopes) - 1), r.node)

resolve_block(block, scopes, c, currentLoopLabel) ==
    pop_scope(resolve_items(block, 1, <<>>,
                            [counter |-> c, scopes |-> Append(scopes, EmptyVarMap)],
                            currentLoopLabel))

\* resolve_function: one global scope, then the body as a block, no loop label
resolve_function_body(fn, r) ==
    IF r.err # "" THEN Resolved(r.err, r.counter, r.scopes, fn)
    ELSE Resolved("", r.counter, r.scopes, Function(fn.name, r.node))

resolve_function(fn, c) ==
    resolve_function_body(fn, resolve_block(fn.body, <<EmptyVarMap>>, c, ""))

resolve_program(p, c) == resolve_function(p, c)

\* ----------------------------------------------------------- the lowerer

TackyConstant(v) == [kind |-> "Constant", value |-> v]
TackyVar(id) == [kind |-> "Var", name |-> id]

TackyReturn(v) == [kind |-> "Return", value |-> v]
TackyUnary(o, s, d) == [kind |-> "Unary", op |-> o, src |-> s, dst |-> d]
TackyBinary(o, s1, s2, d) ==
    [kind |-> "Binary", op |-> o, src1 |-> s1, src2 |-> s2, dst |-> d]
\* a Copy built with its two values exchanged
TackyCopySwapped(s, d) == [kind |-> "Copy", src |-> d, dst |-> s]

TackyCopy(s, d) == [kind |-> "Copy", src |-> s, dst |-> d]
TackyJump(t) == [kind |-> "Jump", target |-> t]
TackyJumpIfZero(c, t) == [kind |-> "JumpIfZero", condition |-> c, target |-> t]
TackyJumpIfNotZero(c, t) == [kind |-> "JumpIfNotZero", condition |-> c, target |-> t]
TackyLabel(n) == [kind |-> "Label", name |-> n]

\* a Lowerer object as constructed: both counters 0, no instruction; thrown
\* records that a std::runtime_error left the lowerer
NewLowerer ==
    [tempCounter |-> 0, labelCounter |-> 0, instructions |-> <<>>, thrown |-> FALSE]

newTemp(st) ==
    [name |-> "%tmp" \o ToString(st.tempCounter),
     st |-> [st EXCEPT !.tempCounter = @ + 1]]

\* newLabel with labelCounter left as it was
newLabelSameCounter(base, st) ==
    [name |-> base \o "_" \o ToString(st.labelCounter), st |-> st]

newLabel(base, st) ==
    [name |-> base \o "_" \o ToString(st.labelCounter),
     st |-> [st EXCEPT !.labelCounter = @ + 1]]

\* instructions.push_back, once per element of instrs
push_back(st, instrs) == [st EXCEPT !.instructions = @ \o instrs]

toTackyBinaryOp(op) == op

toTackyUnaryOp(op) ==
    CASE op = "COMPLEMENT" -> "Complement"
      [] op = "NEGATE" -> "Negate"
      [] op = "NOT" -> "Not"

Lowered(v, st) == [val |-> v, st |-> st]

RECURSIVE lowerExpression(_, _)

\* the conditional jump of a short-circuit operator: JumpIfZero for AND,
\* JumpIfNotZero for OR
TackyJumpOn(op, c, t) ==
    IF op = "AND" THEN TackyJumpIfZero(c, t) ELSE TackyJumpIfNotZero(c, t)

\* the AND and OR arms: op is the operator, base the name of the label both
\* jumps go to, first the constant copied when no jump is taken, second the
\* other one.
\* v1 is the lowered first operand; the temporary and the two labels are
\* taken after it and before the second operand is lowered.
lowerShortCircuitEnd(v2, result, skipLabel, endLabel, op, first, second) ==
    Lowered(TackyVar(result.name),
            push_back(v2.st,
                <<TackyJumpOn(op, v2.val, skipLabel.name),
                  TackyCopy(TackyConstant(first), TackyVar(result.name)),
                  TackyJump(endLabel.name),
                  TackyLabel(skipLabel.name),
                  TackyCopy(TackyConstant(second), TackyVar(result.name)),
                  TackyLabel(endLabel.name)>>))

\* the AND and OR arms with the second operand lowered before the jump on
\* the first is pushed
lowerShortCircuitEager(expr, v1, op, base, first, second) ==
    LET result == newTemp(v1.st)
        skipLabel == newLabel(base, result.st)
        endLabel == newLabel("end", skipLabel.st)
        v2 == lowerExpression(expr.operand2, endLabel.st)
    IN  lowerShortCircuitEnd(
            Lowered(v2.val, push_back(v2.st, <<TackyJumpOn(op, v1.val, skipLabel.name)>>)),
            result, skipLabel, endLabel, op, first, second)

lowerShortCircuit(expr, v1, op, base, first, second) ==
    LET result == newTemp(v1.st)
        skipLabel == newLabel(base, result.st)
        endLabel == newLabel("end", skipLabel.st)
    IN  lowerShortCircuitEnd(
            lowerExpression(expr.operand2,
                push_back(endLabel.st,
                          <<TackyJumpOn(op, v1.val, skipLabel.name)>>)),
            result, skipLabel, endLabel, op, first, second)

\* the standard binary arm: both operands are lowered, then the temporary
lowerBinary(expr, lhs, rhs) ==
    LET tmpName == newTemp(rhs.st)
    IN  Lowered(TackyVar(tmpName.name),
                push_back(tmpName.st,
                    <<TackyBinary(toTackyBinaryOp(expr.bin_op), lhs.val, rhs.val,
                                  TackyVar(tmpName.name))>>))

lowerBinaryRight(expr, lhs) ==
    lowerBinary(expr, lhs, lowerExpression(expr.operand2, lhs.st))

lowerAssignment(expr, rhs) ==
    Lowered(TackyVar(expr.exp1.identifier),
            push_back(rhs.st, <<TackyCopy(rhs.val, TackyVar(expr.exp1.identifier))>>))

\* the CONDITIONAL arm: dst and both labels are taken before the condition
\* is lowered
lowerConditionalEnd(falseVal, dst, endLabel) ==
    Lowered(TackyVar(dst.name),
            push_back(falseVal.st,
                <<TackyCopy(falseVal.val, TackyVar(dst.name)),
                  TackyLabel(endLabel.name)>>))

lowerConditionalFalse(expr, trueVal, dst, elseLabel, endLabel) ==
    lowerConditionalEnd(
        lowerExpression(expr.falseExpr,
            push_back(trueVal.st,
                <<TackyCopy(trueVal.val, TackyVar(dst.name)),
                  TackyJump(endLabel.name),
                  TackyLabel(elseLabel.name)>>)),
        dst, endLabel)

lowerConditionalTrue(expr, condVal, dst, elseLabel, endLabel) ==
    lowerConditionalFalse(expr,
        lowerExpression(expr.trueExpr,
            push_back(condVal.st, <<TackyJumpIfZero(condVal.val, elseLabel.name)>>)),
        dst, elseLabel, endLabel)

lowerConditional(expr, st) ==
    LET dst == newTemp(st)
        elseLabel == newLabel("cond_else", dst.st)
        endLabel == newLabel("cond_end", elseLabel.st)
    IN  lowerConditionalTrue(expr, lowerExpression(expr.condition, endLabel.st),
                             dst, elseLabel, endLabel)

lowerUnary(expr, src) ==
    LET tmpName == newTemp(src.st)
    IN  Lowered(TackyVar(tmpName.name),
                push_back(tmpName.st,
                    <<TackyUnary(toTackyUnaryOp(expr.un_op), src.val,
                                 TackyVar(tmpName.name))>>))

lowerExpression(expr, st) ==
    CASE expr.type = "BINARY" /\ expr.bin_op = "AND" ->
            lowerShortCircuit(expr, lowerExpression(expr.operand1, st),
                              "AND", "false", 1, 0)
      [] expr.type = "BINARY" /\ expr.bin_op = "OR" ->
            lowerShortCircuit(expr, lowerExpression(expr.operand1, st),
                              "OR", "true", 0, 1)
      [] expr.type = "BINARY" /\ expr.bin_op \notin {"AND", "OR"} ->
            lowerBinaryRight(expr, lowerExpression(expr.operand1, st))
      [] expr.type = "CONSTANT" -> Lowered(TackyConstant(expr.value), st)
      [] expr.type = "VAR" -> Lowered(TackyVar(expr.identifier), st)
      [] expr.type = "ASSIGNMENT" /\ expr.exp1.type = "VAR" ->
            lowerAssignment(expr, lowerExpression(expr.exp2, st))
      [] expr.type = "CONDITIONAL" -> lowerConditional(expr, st)
      [] expr.type = "UNARY" -> lowerUnary(expr, lowerExpression(expr.operand, st))
      \* throw std::runtime_error("Unhandled expression type")
      [] OTHER -> Lowered(TackyConstant(0), [st EXCEPT !.thrown = TRUE])

RECURSIVE lowerStatement(_, _)
RECURSIVE lowerBlock(_, _, _)

\* the declaration arm of lowerBlockItem: val is the lowered initializer
lowerInitializer(item, val) ==
    push_back(val.st, <<TackyCopy(val.val, TackyVar(item.declaration.name))>>)

lowerBlockItem(item, st) ==
    IF item.type = "STATEMENT" THEN lowerStatement(item.statement, st)
    ELSE IF item.declaration.initializer # NoExp
         THEN lowerInitializer(item, lowerExpression(item.declaration.initializer, st))
         ELSE st

\* the loop of lowerBlock over block->items, from item i on
lowerBlock(block, i, st) ==
    IF i > Len(block) THEN st
    ELSE lowerBlock(block, i + 1, lowerBlockItem(block[i], st))

lowerReturn(val) == push_back(val.st, <<TackyReturn(val.val)>>)

\* the IF arm with an else branch and the end label not pushed
lowerElseNoEndLabel(stmt, s2, elseLabel, endLabel) ==
    lowerStatement(stmt.elseBranch,
        push_back(s2, <<TackyJump(endLabel.name), TackyLabel(elseLabel.name)>>))

\* the IF arm with an else branch; s2 is the lowerer after the then branch
lowerElse(stmt, s2, elseLabel, endLabel) ==
    push_back(
        lowerStatement(stmt.elseBranch,
            push_back(s2, <<TackyJump(endLabel.name), TackyLabel(elseLabel.name)>>)),
        <<TackyLabel(endLabel.name)>>)

\* the IF arm: condVal is the lowered condition; both labels are taken
\* whether or not there is an else branch
lowerIf(stmt, condVal) ==
    LET elseLabel == newLabel("else", condVal.st)
        endLabel == newLabel("endif", elseLabel.st)
    IN  IF stmt.elseBranch # NoStmt
        THEN lowerElse(stmt,
                 lowerStatement(stmt.thenBranch,
                     push_back(endLabel.st,
                         <<TackyJumpIfZero(condVal.val, elseLabel.name)>>)),
                 elseLabel, endLabel)
        ELSE push_back(
                 lowerStatement(stmt.thenBranch,
                     push_back(endLabel.st,
                         <<TackyJumpIfZero(condVal.val, endLabel.name)>>)),
                 <<TackyJump(endLabel.name), TackyLabel(endLabel.name)>>)

lowerStatement(stmt, st) ==
    CASE stmt.type = "RETURN" -> lowerReturn(lowerExpression(stmt.expression, st))
      [] stmt.type = "EXPRESSION" -> lowerExpression(stmt.expression, st).st
      [] stmt.type = "IF" -> lowerIf(stmt, lowerExpression(stmt.condition, st))
      [] stmt.type = "COMPOUND" -> lowerBlock(stmt.block, 1, st)
      [] stmt.type = "NULL_STMT" -> st
      \* the switch has no case for WHILE, DO_WHILE, FOR, BREAK, CONTINUE
      \* and no default: nothing is emitted for them
      [] OTHER -> st

lowerFunction(fn, st) == lowerBlock(fn.body, 1, st)

\* Lowerer::lower: func->body = std::move(instructions)
lower(astProgram) == lowerFunction(astProgram, NewLowerer)

\* ------------------------------------------------------ the assembly IR

Imm(v) == [kind |-> "Imm", value |-> v]
Register(r) == [kind |-> "Register", reg |-> r]
Pseudo(id) == [kind |-> "Pseudo", identifier |-> id]
Stack(n) == [kind |-> "Stack", value |-> n]

Mov(s, d) == [kind |-> "Mov", src |-> s, dst |-> d]
Unary(u, d) == [kind |-> "Unary", unary_operator |-> u, dst |-> d]
Binary(o, s, d) == [kind |-> "Binary", op_type |-> o, src |-> s, dst |-> d]
\* Cmp's constructor takes lhs first; Cmp::toASM prints rhs first
Cmp(l, r) == [kind |-> "Cmp", lhs |-> l, rhs |-> r]
Idiv(d) == [kind |-> "Idiv", dst |-> d]
Cdq == [kind |-> "Cdq"]
Jmp(target) == [kind |-> "Jmp", name |-> target]
JmpCC(cond, target) == [kind |-> "JmpCC", cond_node |-> cond, name |-> target]
SetCC(cond, d) == [kind |-> "SetCC", cond_node |-> cond, op |-> d]
Label(n) == [kind |-> "Label", name |-> n]
AllocateStack(n) == [kind |-> "AllocateStack", value |-> n]
Ret == [kind |-> "Ret"]

convertValToOperand(val) ==
    IF val.kind = "Constant" THEN Imm(val.value) ELSE Pseudo(val.name)

\* the relational arm's switch of convertTackyToASDL
RelationToCondNode(op) ==
    CASE op = "EQUAL" -> "E"
      [] op = "NOTEQUAL" -> "NE"
      [] op = "LESSTHAN" -> "L"
      [] op = "LESSEQ" -> "LE"
      [] op = "GREATERTHAN" -> "G"
      [] op = "GREATEREQ" -> "GE"

\* the instructions convertTackyToASDL pushes for one TACKY instruction
convertInstruction(instr) ==
    CASE instr.kind = "Return" ->
            <<Mov(convertValToOperand(instr.value), Register("AX")), Ret>>
      [] instr.kind = "Jump" -> <<Jmp(instr.target)>>
      [] instr.kind = "JumpIfZero" ->
            <<Cmp(Imm(0), convertValToOperand(instr.condition)),
              JmpCC("E", instr.target)>>
      [] instr.kind = "JumpIfNotZero" ->
            <<Cmp(Imm(0), convertValToOperand(instr.condition)),
              JmpCC("NE", instr.target)>>
      [] instr.kind = "Copy" ->
            <<Mov(convertValToOperand(instr.src), convertValToOperand(instr.dst))>>
      [] instr.kind = "Label" -> <<Label(instr.name)>>
      [] instr.kind = "Unary" /\ instr.op = "Not" ->
            <<Cmp(Imm(0), convertValToOperand(instr.src)),
              Mov(Imm(0), convertValToOperand(instr.dst)),
              SetCC("E", convertValToOperand(instr.dst))>>
      [] instr.kind = "Unary" /\ instr.op # "Not" ->
            <<Mov(convertValToOperand(instr.src), Pseudo(instr.dst.name)),
              Unary(IF instr.op = "Complement" THEN "NOT" ELSE "NEG",
                    Pseudo(instr.dst.name))>>
      [] instr.kind = "Binary" /\ instr.op \in {"DIVIDE", "REMAINDER"} ->
            <<Mov(convertValToOperand(instr.src1), Register("AX")),
              Cdq,
              Idiv(convertValToOperand(instr.src2)),
              Mov(Register(IF instr.op = "DIVIDE" THEN "AX" ELSE "DX"),
                  Pseudo(instr.dst.name))>>
      [] instr.kind = "Binary" /\ instr.op \in {"ADD", "SUBTRACT", "MULTIPLY"} ->
            <<Mov(convertValToOperand(instr.src1), Pseudo(instr.dst.name)),
              Binary(CASE instr.op = "ADD" -> "ADD"
                       [] instr.op = "SUBTRACT" -> "SUB"
                       [] instr.op = "MULTIPLY" -> "MULT",
                     convertValToOperand(instr.src2), Pseudo(instr.dst.name))>>
      [] instr.kind = "Binary"
            /\ instr.op \notin {"DIVIDE", "REMAINDER", "ADD", "SUBTRACT", "MULTIPLY"} ->
            <<Cmp(convertValToOperand(instr.src2), convertValToOperand(instr.src1)),
              Mov(Imm(0), convertValToOperand(instr.dst)),
              SetCC(RelationToCondNode(instr.op), convertValToOperand(instr.dst))>>

RECURSIVE FlatMap(_, _)
FlatMap(f(_), s) == IF s = <<>> THEN <<>> ELSE f(Head(s)) \o FlatMap(f, Tail(s))

convertTackyToASDL(body) == FlatMap(convertInstruction, body)

\* ------------------------------------------------- the pseudo -> stack pass

NoOperand == [kind |-> "nullptr"]

\* replaceIfPseudo with the next free offset left as it was
replaceIfPseudoSameSlot(op, offsets, stackOffset) ==
    IF op.kind = "Pseudo"
    THEN IF op.identifier \notin DOMAIN offsets
         THEN [replaced |-> Stack(stackOffset),
               offsets |-> (op.identifier :> stackOffset) @@ offsets,
               stackOffset |-> stackOffset]
         ELSE [replaced |-> Stack(offsets[op.identifier]),
               offsets |-> offsets, stackOffset |-> stackOffset]
    ELSE [replaced |-> NoOperand, offsets |-> offsets, stackOffset |-> stackOffset]

\* replaceIfPseudo: the operand returned (nullptr unless op is a Pseudo) and
\* the two reference parameters afterwards
replaceIfPseudo(op, offsets, stackOffset) ==
    IF op.kind = "Pseudo"
    THEN IF op.identifier \notin DOMAIN offsets
         THEN [replaced |-> Stack(stackOffset),
               offsets |-> (op.identifier :> stackOffset) @@ offsets,
               stackOffset |-> stackOffset - 4]
         ELSE [replaced |-> Stack(offsets[op.identifier]),
               offsets |-> offsets, stackOffset |-> stackOffset]
    ELSE [replaced |-> NoOperand, offsets |-> offsets, stackOffset |-> stackOffset]

\* the operand put back as it was, whatever replaceIfPseudo returned
ReplacedOrKeptAlwaysKept(r, op) == op

\* if (auto replaced = replaceIfPseudo(...)) set(replaced) else set(op)
ReplacedOrKept(r, op) == IF r.replaced # NoOperand THEN r.replaced ELSE op

\* the body of replacePseudosWithStack's loop for one instruction: the
\* instruction rewritten, the map and the next free offset afterwards
replaceInInstruction(instr, offsets, stackOffset) ==
    CASE instr.kind \in {"Unary", "Idiv"} ->
            LET d == replaceIfPseudo(instr.dst, offsets, stackOffset)
            IN  [instr |-> [instr EXCEPT !.dst = ReplacedOrKept(d, instr.dst)],
                 offsets |-> d.offsets, stackOffset |-> d.stackOffset]
      [] instr.kind \in {"Mov", "Binary"} ->
            LET d == replaceIfPseudo(instr.dst, offsets, stackOffset)
                s == replaceIfPseudo(instr.src, d.offsets, d.stackOffset)
            IN  [instr |-> [instr EXCEPT !.dst = ReplacedOrKept(d, instr.dst),
                                         !.src = ReplacedOrKept(s, instr.src)],
                 offsets |-> s.offsets, stackOffset |-> s.stackOffset]
      [] instr.kind = "Cmp" ->
            LET l == replaceIfPseudo(instr.lhs, offsets, stackOffset)
                r == replaceIfPseudo(instr.rhs, l.offsets, l.stackOffset)
            IN  [instr |-> [instr EXCEPT !.lhs = ReplacedOrKept(l, instr.lhs),
                                         !.rhs = ReplacedOrKept(r, instr.rhs)],
                 offsets |-> r.offsets, stackOffset |-> r.stackOffset]
      [] instr.kind = "SetCC" ->
            LET d == replaceIfPseudo(instr.op, offsets, stackOffset)
            IN  [instr |-> [instr EXCEPT !.op = ReplacedOrKept(d, instr.op)],
                 offsets |-> d.offsets, stackOffset |-> d.stackOffset]
      [] OTHER -> [instr |-> instr, offsets |-> offsets, stackOffset |-> stackOffset]

RECURSIVE replaceLoop(_, _, _, _, _)
replaceLoop(instrs, i, done, offsets, stackOffset) ==
    IF i > Len(instrs)
    THEN [instructions |-> done, offsets |-> offsets, stackOffset |-> stackOffset]
    ELSE LET r == replaceInInstruction(instrs[i], offsets, stackOffset)
         IN  replaceLoop(instrs, i + 1, Append(done, r.instr), r.offsets, r.stackOffset)

\* the first offset handed out: int stackOffset = -4
FirstStackOffset == -4

\* replacePseudosWithStack: the instructions rewritten in place, the local
\* map pseudoOffsets at the end, and the value returned, -stackOffset
replacePseudosWithStack(instrs) ==
    LET r == replaceLoop(instrs, 1, <<>>, [n \in {} |-> 0], FirstStackOffset)
    IN  [instructions |-> r.instructions, offsets |-> r.offsets,
         returned |-> -r.stackOffset]

insertAllocateStack(instrs, size) == <<AllocateStack(-size)>> \o instrs

\* ------------------------------------------------------- the legalization

IsMem(op) == op.kind = "Stack"
IsImm(op) == op.kind = "Imm"

\* a Mov pushed back as it is
legalizeMovKept(mov) == <<mov>>

legalizeMov(mov) ==
    IF IsMem(mov.src) /\ IsMem(mov.dst)
    THEN <<Mov(mov.src, Register("R10")), Mov(Register("R10"), mov.dst)>>
    ELSE <<mov>>

\* an Idiv pushed back as it is
legalizeIdivKept(idiv) == <<idiv>>

legalizeIdiv(idiv) ==
    IF IsImm(idiv.dst)
    THEN <<Mov(idiv.dst, Register("R10")), Idiv(Register("R10"))>>
    ELSE <<idiv>>

\* legalizeBinary without the multiply by an immediate
legalizeBinaryNoImm(bin) ==
    CASE bin.op_type \in {"ADD", "SUB"} /\ IsMem(bin.src) /\ IsMem(bin.dst) ->
            <<Mov(bin.src, Register("R10")),
              Binary(bin.op_type, Register("R10"), bin.dst)>>
      [] bin.op_type = "MULT" /\ IsMem(bin.src) /\ IsMem(bin.dst) ->
            <<Mov(bin.dst, Register("R11")),
              Mov(bin.src, Register("R10")),
              Binary(bin.op_type, Register("R10"), Register("R11")),
              Mov(Register("R11"), bin.dst)>>
      [] OTHER -> <<bin>>

legalizeBinary(bin) ==
    CASE bin.op_type \in {"ADD", "SUB"} /\ IsMem(bin.src) /\ IsMem(bin.dst) ->
            <<Mov(bin.src, Register("R10")),
              Binary(bin.op_type, Register("R10"), bin.dst)>>
      [] bin.op_type = "MULT" /\ IsImm(bin.src) /\ IsMem(bin.dst) ->
            <<Mov(bin.dst, Register("R11")),
              Binary(bin.op_type, bin.src, Register("R11")),
              Mov(Register("R11"), bin.dst)>>
      [] bin.op_type = "MULT" /\ IsMem(bin.src) /\ IsMem(bin.dst) ->
            <<Mov(bin.dst, Register("R11")),
              Mov(bin.src, Register("R10")),
              Binary(bin.op_type, Register("R10"), Register("R11")),
              Mov(Register("R11"), bin.dst)>>
      [] OTHER -> <<bin>>

\* legalizeCmp with the first operand loaded into R10 only from memory
legalizeCmpImmKept(cmp) ==
    CASE IsMem(cmp.lhs) /\ IsMem(cmp.rhs) ->
            <<Mov(cmp.lhs, Register("R10")), Cmp(Register("R10"), cmp.rhs)>>
      [] IsMem(cmp.lhs) /\ IsImm(cmp.rhs) ->
            <<Mov(cmp.rhs, Register("R11")), Cmp(cmp.lhs, Register("R11"))>>
      [] OTHER -> <<cmp>>

legalizeCmp(cmp) ==
    CASE IsMem(cmp.lhs) /\ IsMem(cmp.rhs) ->
            <<Mov(cmp.lhs, Register("R10")), Cmp(Register("R10"), cmp.rhs)>>
      [] IsMem(cmp.lhs) /\ IsImm(cmp.rhs) ->
            <<Mov(cmp.rhs, Register("R11")), Cmp(cmp.lhs, Register("R11"))>>
      [] IsImm(cmp.lhs) /\ IsMem(cmp.rhs) ->
            <<Mov(cmp.lhs, Register("R11")), Cmp(Register("R11"), cmp.rhs)>>
      [] IsImm(cmp.lhs) /\ IsImm(cmp.rhs) ->
            <<Mov(cmp.lhs, Register("R10")), Cmp(Register("R10"), cmp.rhs)>>
      [] OTHER -> <<cmp>>

legalizeInstruction(instr) ==
    CASE instr.kind = "Mov" -> legalizeMov(instr)
      [] instr.kind = "Idiv" -> legalizeIdiv(instr)
      [] instr.kind = "Binary" -> legalizeBinary(instr)
      [] instr.kind = "Cmp" -> legalizeCmp(instr)
      [] OTHER -> <<instr>>

legalizeMovMemoryToMemory(instrs) == FlatMap(legalizeInstruction, instrs)

\* ------------------------------------------------------------ the emitter

\* One line of assembly text: whether it starts with the two-space indent,
\* its first word and its operands.
Line(i, m, ops) == [indent |-> i, mnemonic |-> m, operands |-> ops]
BlankLine == Line(FALSE, "", <<>>)

RegisterToASM(reg) ==
    CASE reg = "AX" -> "%eax"
      [] reg = "DX" -> "%edx"
      [] reg = "R10" -> "%r10d"
      [] reg = "R11" -> "%r11d"

OperandToASM(op) ==
    CASE op.kind = "Imm" -> "$" \o ToString(op.value)
      [] op.kind = "Register" -> RegisterToASM(op.reg)
      [] op.kind = "Pseudo" -> op.identifier
      [] op.kind = "Stack" -> ToString(op.value) \o "(%rbp)"

condNodeToASM(c) ==
    CASE c = "E" -> "e"
      [] c = "NE" -> "ne"
      [] c = "G" -> "g"
      [] c = "GE" -> "ge"
      [] c = "L" -> "l"
      [] c = "LE" -> "le"

\* the lines FunctionDefinition::toASM adds for one instruction, each
\* instruction's own toASM included
InstructionToASM(instr) ==
    CASE instr.kind = "Label" ->
            <<BlankLine, Line(FALSE, "L" \o instr.name \o ":", <<>>), BlankLine>>
      [] instr.kind = "Mov" ->
            <<Line(TRUE, "movl", <<OperandToASM(instr.src), OperandToASM(instr.dst)>>)>>
      [] instr.kind = "Unary" ->
            <<Line(TRUE, IF instr.unary_operator = "NEG" THEN "negl" ELSE "notl",
                   <<OperandToASM(instr.dst)>>)>>
      [] instr.kind = "Binary" ->
            <<Line(TRUE, CASE instr.op_type = "ADD" -> "addl"
                           [] instr.op_type = "SUB" -> "subl"
                           [] instr.op_type = "MULT" -> "imull",
                   <<OperandToASM(instr.src), OperandToASM(instr.dst)>>)>>
      [] instr.kind = "Cmp" ->
            <<Line(TRUE, "cmpl", <<OperandToASM(instr.rhs), OperandToASM(instr.lhs)>>)>>
      [] instr.kind = "Idiv" -> <<Line(TRUE, "idivl", <<OperandToASM(instr.dst)>>)>>
      [] instr.kind = "Cdq" -> <<Line(TRUE, "cdq", <<>>)>>
      [] instr.kind = "Jmp" -> <<Line(TRUE, "jmp", <<"L" \o instr.name>>)>>
      [] instr.kind = "JmpCC" ->
            <<Line(TRUE, "j" \o condNodeToASM(instr.cond_node), <<"L" \o instr.name>>)>>
      [] instr.kind = "SetCC" ->
            <<Line(TRUE, "set" \o condNodeToASM(instr.cond_node),
                   <<OperandToASM(instr.op)>>)>>
      [] instr.kind = "AllocateStack" ->
            <<Line(TRUE, "subq", <<"$" \o ToString(instr.value), "%rsp">>)>>
      [] instr.kind = "Ret" ->
            <<Line(TRUE, "movq", <<"%rbp", "%rsp">>),
              Line(TRUE, "popq", <<"%rbp">>),
              Line(TRUE, "ret", <<>>)>>

FunctionDefinitionToASM(name, instrs) ==
    <<Line(FALSE, ".globl", <<"_" \o name>>),
      Line(FALSE, "_" \o name \o ":", <<>>),
      Line(TRUE, "pushq", <<"%rbp">>),
      Line(TRUE, "movq", <<"%rsp", "%rbp">>)>>
    \o FlatMap(InstructionToASM, instrs)

\* asmCode.find("_main:"): the line it is found on, 0 for npos
FindMain(lines) ==
    IF \E i \in 1..Len(lines) : lines[i] = Line(FALSE, "_main:", <<>>)
    THEN Min({i \in 1..Len(lines) : lines[i] = Line(FALSE, "_main:", <<>>)})
    ELSE 0

\* mainBody.find("\n  ret") != npos
HasRet(lines, mainPos) ==
    \E i \in (mainPos + 1)..Len(lines) : lines[i].indent /\ lines[i].mnemonic = "ret"

\* mainBody holds "movq %rbp, %rsp" and "popq %rbp"
HasRestoreStack(lines, mainPos) ==
    /\ \E i \in mainPos..Len(lines) :
          lines[i].mnemonic = "movq" /\ lines[i].operands = <<"%rbp", "%rsp">>
    /\ \E i \in mainPos..Len(lines) :
          lines[i].mnemonic = "popq" /\ lines[i].operands = <<"%rbp">>

RestoreStackLines ==
    <<Line(TRUE, "movq", <<"%rbp", "%rsp">>), Line(TRUE, "popq", <<"%rbp">>)>>
ReturnZeroLines ==
    <<Line(TRUE, "movl", <<"$0", "%eax">>), Line(TRUE, "ret", <<>>)>>

\* the text writeASMToFile writes for program.toASM() = lines
writeASMToFile(lines) ==
    IF FindMain(lines) # 0
    THEN IF ~HasRet(lines, FindMain(lines))
         THEN lines
              \o (IF ~HasRestoreStack(lines, FindMain(lines))
                  THEN RestoreStackLines ELSE <<>>)
              \o ReturnZeroLines \o <<BlankLine>>
         ELSE lines
    ELSE lines \o <<BlankLine>> \o RestoreStackLines \o ReturnZeroLines

\* ------------------------------------------------- a walk of the text

\* the line that defines label target, 0 if none does
LabelLine(lines, target) ==
    IF \E i \in 1..Len(lines) : lines[i] = Line(FALSE, target \o ":", <<>>)
    THEN Min({i \in 1..Len(lines) : lines[i] = Line(FALSE, target \o ":", <<>>)})
    ELSE 0

ConditionalJumps == {"je", "jne", "jg", "jge", "jl", "jle"}

\* the lines control can be at after the line at i: none after ret, the
\* target after jmp, the target or the next line after a conditional jump,
\* the next line otherwise; Len(lines) + 1 is past the last line
Successors(lines, i) ==
    CASE lines[i].mnemonic = "ret" -> {}
      [] lines[i].mnemonic = "jmp" -> {LabelLine(lines, lines[i].operands[1])}
      [] lines[i].mnemonic \in ConditionalJumps ->
            {LabelLine(lines, lines[i].operands[1]), i + 1}
      [] OTHER -> {i + 1}

\* ----------------------------------------------------- generated programs

IntLiterals == {ExpConstant(v) : v \in 0..MaxConst}
VarNames == {"a", "b"}
Atoms == IntLiterals \cup {ExpVar(x) : x \in VarNames}

\* every expression with one operator over the atoms
Exps1 ==
    Atoms
    \cup {ExpUnary(op, e) : op \in UnaryOps, e \in Atoms}
    \cup {ExpBinary(op, l, r) : op \in BinaryOps, l \in Atoms, r \in Atoms}
    \cup {ExpAssignment(l, r) : l \in Atoms, r \in Atoms}
    \cup {ExpConditional(c, t, f) : c \in Atoms, t \in Atoms, f \in Atoms}

\* some expressions with operators nested in operators
NestedOperands ==
    {ExpVar("a"), ExpAssignment(ExpVar("a"), ExpConstant(1)),
     ExpBinary("AND", ExpVar("a"), ExpVar("b")),
     ExpBinary("MULTIPLY", ExpVar("a"), ExpVar("b")),
     ExpBinary("MULTIPLY", ExpVar("a"), ExpConstant(1)),
     ExpConditional(ExpVar("a"), ExpVar("b"), ExpConstant(0))}
NestedExps ==
    {ExpBinary(op, l, r) : op \in {"ADD", "AND", "OR", "LESSTHAN"},
                           l \in NestedOperands, r \in NestedOperands}
    \cup {ExpUnary(op, e) : op \in UnaryOps, e \in NestedOperands}

\* int a = 1; int b;
Prelude ==
    <<ItemDeclaration(Declaration("a", ExpConstant(1))),
      ItemDeclaration(Declaration("b", NoExp))>>

FunctionNames == {"main", "f"}

ExpressionPrograms ==
    {Function("main", Prelude \o <<ItemStatement(StmtReturn(e))>>) :
        e \in Exps1 \cup NestedExps}

\* block items of the statement programs
StatementItems ==
    {ItemStatement(StmtReturn(ExpVar("a"))),
     ItemStatement(StmtExpression(ExpAssignment(ExpVar("b"), ExpConstant(0)))),
     ItemStatement(StmtIf(ExpVar("a"), StmtReturn(ExpConstant(1)), NoStmt)),
     ItemStatement(StmtIf(ExpVar("a"), StmtReturn(ExpConstant(1)),
                          StmtReturn(ExpConstant(0)))),
     ItemStatement(StmtIf(ExpConstant(0), StmtNull,
                          StmtCompound(<<ItemStatement(StmtReturn(ExpVar("b")))>>))),
     ItemStatement(StmtLoop("WHILE", ExpVar("a"), StmtBreak(""), "")),
     ItemDeclaration(Declaration("c", ExpBinary("DIVIDE", ExpVar("a"), ExpConstant(1))))}

\* statements after the prelude in a generated statement program
MaxStatements == 2

StatementPrograms ==
    {Function(n, pre \o items) :
        n \in FunctionNames, pre \in {<<>>, Prelude},
        items \in SeqsUpTo(StatementItems, MaxStatements)}

PipelinePrograms == ExpressionPrograms \cup StatementPrograms

\* block items of the scope programs: declarations and uses of two names,
\* one of which has the shape of a generated name
ScopeNames == {"a", "a_0"}
ScopeItems ==
    {ItemDeclaration(Declaration(x, NoExp)) : x \in ScopeNames}
    \cup {ItemStatement(StmtReturn(ExpVar(x))) : x \in ScopeNames}
    \cup {ItemDeclaration(Declaration("a_0", ExpVar("a"))),
          ItemStatement(StmtExpression(ExpAssignment(ExpVar("a"), ExpConstant(0)))),
          ItemStatement(StmtCompound(
              <<ItemDeclaration(Declaration("a", NoExp)),
                ItemStatement(StmtReturn(ExpVar("a")))>>))}

\* items 1..i of s, then a block of items i+1..j, then items j+1..Len(s)
ScopeBody(s, i, j) ==
    SubSeq(s, 1, i)
    \o <<ItemStatement(StmtCompound(SubSeq(s, i + 1, j)))>>
    \o SubSeq(s, j + 1, Len(s))

ScopeSplits ==
    {<<s, i, j>> \in SeqsUpTo(ScopeItems, MaxItems) \X (0..MaxItems) \X (0..MaxItems) :
        i <= j /\ j <= Len(s)}
ScopePrograms == {Function("main", ScopeBody(t[1], t[2], t[3])) : t \in ScopeSplits}

\* nesting depth of the statements of a generated loop program
MaxNesting == 3

\* a statement put inside a loop, an if or a block
Nest(stmt) ==
    {StmtLoop("WHILE", ExpConstant(1), stmt, ""),
     StmtLoop("DO_WHILE", ExpConstant(1), stmt, ""),
     StmtFor(ForInitExp(NoExp), NoExp, NoExp, stmt, ""),
     StmtIf(ExpConstant(1), stmt, NoStmt),
     StmtIf(ExpConstant(1), StmtNull, stmt),
     StmtCompound(<<ItemStatement(stmt)>>)}

RECURSIVE LoopStatements(_)
LoopStatements(n) ==
    IF n = 0 THEN {StmtBreak(""), StmtContinue("")}
    ELSE LoopStatements(n - 1) \cup UNION {Nest(stmt) : stmt \in LoopStatements(n - 1)}

\* one statement nested up to MaxNesting deep, or two of them nested less
LoopPrograms ==
    {Function("main", <<ItemStatement(stmt)>>) : stmt \in LoopStatements(MaxNesting)}
    \cup {Function("main", <<ItemStatement(s1), ItemStatement(s2)>>) :
              s1 \in LoopStatements(MaxNesting - 2), s2 \in LoopStatements(MaxNesting - 2)}

\* the token sequences given to the parser: the tokens of the words of a
\* source text, one statement per line
TokenOfWord(word) ==
    CASE word = "int" -> "INT"
      [] word = "void" -> "VOID"
      [] word = "return" -> "RETURN"
      [] word = "if" -> "IF"
      [] word = "else" -> "ELSE"
      [] word = "do" -> "DO"
      [] word = "while" -> "WHILE"
      [] word = "for" -> "FOR"
      [] word = "break" -> "BREAK"
      [] word = "continue" -> "CONTINUE"
      [] word = "(" -> "OPARENTHESIS"
      [] word = ")" -> "CPARENTHESIS"
      [] word = "{" -> "OBRACE"
      [] word = "}" -> "CBRACE"
      [] word = ";" -> "SEMICOLON"
      [] word = "~" -> "COMPLEMENT"
      [] word = "-" -> "NEGATION"
      [] word = "+" -> "ADDITION"
      [] word = "*" -> "MULTIPLICATION"
      [] word = "/" -> "DIVISION"
      [] word = "%" -> "REMAINDER"
      [] word = "&&" -> "AND"
      [] word = "||" -> "OR"
      [] word = "==" -> "EQUAL"
      [] word = "!=" -> "NOTEQUAL"
      [] word = "!" -> "NOT"
      [] word = "<" -> "LESS"
      [] word = ">" -> "GREATER"
      [] word = "<=" -> "LESSEQ"
      [] word = ">=" -> "GREATEREQ"
      [] word = "=" -> "ASSIGN"
      [] word = "?" -> "QUESTION_MARK"
      [] word = ":" -> "COLON"
      [] word \in {ToString(n) : n \in 0..MaxLiteral} -> "CONSTANT"
      [] OTHER -> "IDENTIFIER"

LineOfWord(words, i) ==
    1 + Cardinality({j \in 1..(i - 1) : words[j] \in {";", "{", "}"}})

Tokenized(words) ==
    [i \in 1..Len(words) |->
        Lex(words[i], TokenOfWord(words[i]), i - 1, LineOfWord(words, i))]

FunctionHeader == <<"int", "main", "(", "void", ")", "{">>

\* an assignment whose left-hand side is not a variable
NonVarAssignments ==
    { <<"1", "=", "2">>,
      <<"-", "a", "=", "1">>,
      <<"a", "+", "1", "=", "2">>,
      <<"(", "a", "?", "1", ":", "2", ")", "=", "3">>,
      <<"a", "?", "1", ":", "2", "=", "3">>,
      <<"(", "a", "=", "1", ")", "=", "2">>,
      <<"a", "=", "1", "=", "2">>,
      <<"!", "(", "1", "=", "a", ")">>,
      <<"a", "*", "(", "2", "=", "a", ")">>,
      <<"a", "&&", "(", "a", "+", "1", "=", "a", ")">> }

ParsedExpressions ==
    NonVarAssignments \cup
    { <<"a">>, <<"a", "=", "2">>, <<"a", "=", "a", "-", "1">>, <<"b">>,
      <<"a", "?", "a", "=", "1", ":", "2">>, <<"(", "a", ")">>,
      <<"a", "+">>, <<"(", "a">>, <<"a", "?", "1">>, <<"{">>, <<"1", "2">> }

\* the places of a statement or declaration that hold an expression
StatementsAround(e) ==
    { e \o <<";">>,
      <<"return">> \o e \o <<";">>,
      <<"int", "c", "=">> \o e \o <<";">>,
      <<"if", "(">> \o e \o <<")", ";">>,
      <<"if", "(", "a", ")">> \o e \o <<";", "else", ";">>,
      <<"if", "(", "a", ")", ";", "else">> \o e \o <<";">>,
      <<"while", "(">> \o e \o <<")", ";">>,
      <<"while", "(", "a", ")", "{">> \o e \o <<";", "break", ";", "}">>,
      <<"do", "continue", ";", "while", "(">> \o e \o <<")", ";">>,
      <<"for", "(">> \o e \o <<";", ";", ")", ";">>,
      <<"for", "(", ";">> \o e \o <<";", ")", ";">>,
      <<"for", "(", ";", ";">> \o e \o <<")", ";">>,
      <<"for", "(", "int", "i", "=">> \o e \o <<";", "i", ";", ")", "i", "=", "a", ";">>,
      <<"{", ";">> \o e \o <<";", "}">> }

ParsedTexts ==
    UNION { { FunctionHeader \o <<"int", "a", "=", "1", ";">> \o s \o <<"}">>,
              FunctionHeader \o s \o <<"}">>,
              FunctionHeader \o s \o <<"}", "}">> } :
            s \in UNION {StatementsAround(e) : e \in ParsedExpressions} }

\* every text, and every text cut short after any of its words
TokenSequences ==
    UNION { {Tokenized(SubSeq(t, 1, n)) : n \in 0..Len(t)} : t \in ParsedTexts }


\* the source texts given to the lexer: up to MaxChunks pieces of text, and
\* every keyword of the language with a piece before and after it
MaxChunks == 3
Chunks ==
    { <<"i", "n", "t">>, <<"x">>, <<"1">>, <<" ">>, <<"\n">>, <<"/">>, <<"*">>,
      <<"/", "*">>, <<"*", "/">>, <<"-">>, <<"=">>, <<"?">>, <<"#">> }

KeywordWords ==
    { <<"i", "n", "t">>, <<"v", "o", "i", "d">>, <<"r", "e", "t", "u", "r", "n">>,
      <<"i", "f">>, <<"e", "l", "s", "e">>, <<"d", "o">>, <<"w", "h", "i", "l", "e">>,
      <<"f", "o", "r">>, <<"b", "r", "e", "a", "k">>,
      <<"c", "o", "n", "t", "i", "n", "u", "e">> }

Affixes == {<<>>, <<" ">>, <<"x">>, <<"1">>, <<";">>, <<"e", "g", "e", "r">>}

RECURSIVE Concatenation(_)
Concatenation(chunks) ==
    IF chunks = <<>> THEN <<>> ELSE Head(chunks) \o Concatenation(Tail(chunks))

SourceTexts ==
    {Concatenation(c) : c \in SeqsUpTo(Chunks, MaxChunks)}
        \cup {a \o w \o b : a \in Affixes, w \in KeywordWords, b \in Affixes}

\* programs that compare two operands, each a constant or a variable:
\* int a = A; int b = B; return x rel y;
MaxValue == 2
RelationalOps ==
    {"EQUAL", "NOTEQUAL", "LESSTHAN", "LESSEQ", "GREATERTHAN", "GREATEREQ"}
ComparedOperands == {ExpVar("a"), ExpVar("b")} \cup {ExpConstant(v) : v \in 0..MaxValue}
RelationalPrograms ==
    { Function("main",
               <<ItemDeclaration(Declaration("a", ExpConstant(va))),
                 ItemDeclaration(Declaration("b", ExpConstant(vb))),
                 ItemStatement(StmtReturn(ExpBinary(rel, x, y)))>>) :
        va \in 0..MaxValue, vb \in 0..MaxValue, rel \in RelationalOps,
        x \in ComparedOperands, y \in ComparedOperands }

\* programs whose branches nest: &&, || and conditional expressions inside
\* one another, as conditions of if statements, and if statements inside if
\* statements
BranchOperands ==
    {ExpVar("a"),
     ExpBinary("AND", ExpVar("b"), ExpVar("a")),
     ExpBinary("OR", ExpVar("a"), ExpVar("b")),
     ExpConditional(ExpVar("a"), ExpVar("b"), ExpConstant(0))}
BranchExps ==
    {ExpBinary(op, l, r) : op \in {"AND", "OR"}, l \in BranchOperands, r \in BranchOperands}
    \cup {ExpConditional(c, t, f) :
            c \in BranchOperands, t \in BranchOperands, f \in BranchOperands}
ThenBranches ==
    {StmtReturn(e) : e \in BranchOperands}
    \cup {StmtIf(ExpBinary("AND", ExpVar("a"), ExpVar("b")), StmtNull, NoStmt),
          StmtIf(ExpConditional(ExpVar("a"), ExpVar("b"), ExpConstant(0)),
                 StmtReturn(ExpVar("a")), StmtReturn(ExpVar("b")))}
ElseBranches ==
    {NoStmt,
     StmtIf(ExpBinary("OR", ExpVar("a"), ExpVar("b")), StmtReturn(ExpConstant(1)), NoStmt),
     StmtReturn(ExpConditional(ExpVar("a"), ExpVar("b"), ExpConstant(0)))}
BranchStatements ==
    {StmtIf(c, t, e) : c \in BranchOperands, t \in ThenBranches, e \in ElseBranches}
BranchPrograms ==
    {Function("main", Prelude \o <<ItemStatement(StmtReturn(e))>>) : e \in BranchExps}
    \cup {Function("main", Prelude \o <<ItemStatement(s)>>) : s \in BranchStatements}
    \cup {Function("main", Prelude \o <<ItemStatement(s), ItemStatement(StmtReturn(e))>>) :
            s \in BranchStatements, e \in BranchOperands}

\* programs that return `l && r` or `l || r`, with a left operand that is
\* zero in some and non-zero in others, and right operands that assign:
\* int a = A; int b = B; return l op r;
ShortCircuitLefts ==
    {ExpVar("a"), ExpConstant(0), ExpConstant(1),
     ExpUnary("NOT", ExpVar("a")),
     ExpBinary("AND", ExpVar("a"), ExpVar("b")),
     ExpBinary("OR", ExpVar("a"), ExpVar("b")),
     ExpAssignment(ExpVar("a"), ExpConstant(0))}
ShortCircuitRights ==
    {ExpVar("b"),
     ExpAssignment(ExpVar("b"), ExpConstant(2)),
     ExpBinary("ADD", ExpAssignment(ExpVar("a"), ExpConstant(2)), ExpVar("b")),
     ExpBinary("AND", ExpVar("b"), ExpAssignment(ExpVar("a"), ExpConstant(2))),
     ExpBinary("OR", ExpAssignment(ExpVar("b"), ExpConstant(2)), ExpVar("a")),
     ExpConditional(ExpVar("b"), ExpAssignment(ExpVar("a"), ExpConstant(2)), ExpVar("b"))}
ShortCircuitPrograms ==
    { Function("main",
               <<ItemDeclaration(Declaration("a", ExpConstant(va))),
                 ItemDeclaration(Declaration("b", ExpConstant(vb))),
                 ItemStatement(StmtReturn(ExpBinary(op, l, r)))>>) :
        va \in 0..MaxConst, vb \in 0..MaxConst, op \in {"AND", "OR"},
        l \in ShortCircuitLefts, r \in ShortCircuitRights }

\* the token sequences of `return e;` for expressions without parentheses:
\* up to MaxOperators binary operators between variables, a unary operator
\* before some of them
MaxOperators == 3
OperatorWords == {"*", "/", "%", "+", "-", "<", ">=", "==", "!=", "&&", "||", "="}
PrefixWords == {<<>>, <<"~">>, <<"-">>, <<"!">>}
OperandWords == <<"a", "b", "c", "d", "e", "f">>

\* operand k, and the operators and operands after it
RECURSIVE OperatorChain(_, _)
OperatorChain(ops, k) ==
    IF ops = <<>> THEN <<OperandWords[k]>>
    ELSE <<OperandWords[k], Head(ops)>> \o OperatorChain(Tail(ops), k + 1)

OperatorExpressions ==
    {OperatorChain(ops, 1) : ops \in SeqsUpTo(OperatorWords, MaxOperators)}
    \cup {p \o <<"a", o1>> \o q \o <<"b", o2, "c">> :
            p \in PrefixWords, q \in PrefixWords,
            o1 \in OperatorWords, o2 \in OperatorWords}

ExpressionTokens ==
    {Tokenized(FunctionHeader \o <<"return">> \o e \o <<";", "}">>) :
        e \in OperatorExpressions}

\* the token sequences of `return c ? m : f;`
ConditionWords == {<<"a">>, <<"a", "||", "b">>, <<"!", "a">>, <<"a", "+", "b">>}
MiddleWords ==
    {<<"b">>, <<"b", "=", "1">>, <<"b", "+", "c">>, <<"b", "||", "c">>,
     <<"b", "?", "c", ":", "d">>, <<"b", "=", "c", "=", "d">>,
     <<"b", "?", "c", "=", "1", ":", "d">>}
FalseWords ==
    {<<"e">>, <<"e", "?", "f", ":", "g">>, <<"e", "=", "1">>, <<"e", "+", "f">>,
     <<"e", "||", "f">>}
ConditionalExpressions ==
    {c \o <<"?">> \o m \o <<":">> \o f :
        c \in ConditionWords, m \in MiddleWords, f \in FalseWords}
ConditionalTokens ==
    {Tokenized(FunctionHeader \o <<"return">> \o e \o <<";", "}">>) :
        e \in ConditionalExpressions}

\* programs with one for statement: a declaration before it or none, the
\* three kinds of init, and a statement after it
ForOuters ==
    {<<>>,
     <<ItemDeclaration(Declaration("i", ExpConstant(5)))>>,
     <<ItemDeclaration(Declaration("j", ExpConstant(5)))>>}
ForInits ==
    {ForInitDecl(Declaration("i", ExpConstant(0))),
     ForInitDecl(Declaration("i", ExpVar("i"))),
     ForInitExp(ExpAssignment(ExpVar("i"), ExpConstant(0))),
     ForInitExp(NoExp)}
ForConditions == {NoExp, ExpBinary("LESSTHAN", ExpVar("i"), ExpConstant(3))}
ForPosts == {NoExp, ExpAssignment(ExpVar("i"), ExpBinary("ADD", ExpVar("i"), ExpConstant(1)))}
ForBodies ==
    {StmtNull,
     StmtExpression(ExpAssignment(ExpVar("i"), ExpConstant(2))),
     StmtCompound(<<ItemDeclaration(Declaration("i", ExpConstant(7))),
                    ItemStatement(StmtExpression(ExpVar("i"))),
                    ItemStatement(StmtBreak(""))>>),
     StmtCompound(<<ItemStatement(StmtExpression(ExpVar("i"))),
                    ItemDeclaration(Declaration("i", ExpConstant(7)))>>)}
ForAfters ==
    {<<>>,
     <<ItemStatement(StmtReturn(ExpVar("i")))>>,
     <<ItemDeclaration(Declaration("i", ExpConstant(9)))>>}
ForPrograms ==
    {Function("main",
              outer \o <<ItemStatement(StmtFor(init, cond, post, body, ""))>> \o after) :
        outer \in ForOuters, init \in ForInits, cond \in ForConditions,
        post \in ForPosts, body \in ForBodies, after \in ForAfters}

\* programs that return `l op r` for an arithmetic or relational op, with
\* operands that read and assign the two variables:
\* int a = A; int b = B; return l op r;
OrderLefts ==
    {ExpVar("a"), ExpConstant(1),
     ExpBinary("ADD", ExpVar("a"), ExpVar("b")),
     ExpAssignment(ExpVar("a"), ExpConstant(3)),
     ExpUnary("NEGATE", ExpVar("a"))}
OrderRights ==
    {ExpVar("b"), ExpVar("a"),
     ExpAssignment(ExpVar("a"), ExpConstant(5)),
     ExpBinary("ADD", ExpAssignment(ExpVar("a"), ExpConstant(5)), ExpVar("b")),
     ExpAssignment(ExpVar("b"), ExpAssignment(ExpVar("a"), ExpConstant(5)))}
OrderPrograms ==
    { Function("main",
               <<ItemDeclaration(Declaration("a", ExpConstant(va))),
                 ItemDeclaration(Declaration("b", ExpConstant(vb))),
                 ItemStatement(StmtReturn(ExpBinary(op, l, r)))>>) :
        va \in 0..MaxConst, vb \in 0..MaxConst,
        op \in {"ADD", "SUBTRACT", "MULTIPLY", "LESSTHAN"},
        l \in OrderLefts, r \in OrderRights }

\* -------------------------------------------------------- the state machine

InitWith(programs) ==
    /\ stage = "parsed"
    /\ input = <<>>
    /\ tokens = <<>>
    /\ program \in programs
    /\ counter = 0
    /\ error = ""
    /\ tackyBody = <<>>
    /\ instructions = <<>>
    /\ pseudoOffsets = [n \in {} |-> 0]
    /\ stackSize = 0
    /\ asmCode = <<>>
    /\ rip = 0

Init == InitWith(PipelinePrograms)

\* resolve_program(ast.get())
Resolve ==
    /\ stage = "parsed"
    /\ LET r == resolve_program(program, counter)
       IN  /\ counter' = r.counter
           /\ error' = r.err
           /\ program' = r.node
           /\ stage' = IF r.err = "" THEN "resolved" ELSE "error"
    /\ UNCHANGED <<input, tokens, tackyBody, instructions, pseudoOffsets, stackSize, asmCode, rip>>

\* Lowerer().lower(ast.get())
Lower ==
    /\ stage = "resolved"
    /\ LET st == lower(program)
       IN  /\ tackyBody' = IF st.thrown THEN <<>> ELSE st.instructions
           /\ error' = IF st.thrown THEN "Unhandled expression type" ELSE ""
           /\ stage' = IF st.thrown THEN "error" ELSE "lowered"
    /\ UNCHANGED <<input, tokens, program, counter, instructions, pseudoOffsets, stackSize, asmCode, rip>>

Convert ==
    /\ stage = "lowered"
    /\ instructions' = convertTackyToASDL(tackyBody)
    /\ stage' = "converted"
    /\ UNCHANGED <<input, tokens, program, counter, error, tackyBody, pseudoOffsets, stackSize,
                   asmCode, rip>>

ReplacePseudos ==
    /\ stage = "converted"
    /\ LET r == replacePseudosWithStack(instructions)
       IN  /\ instructions' = r.instructions
           /\ pseudoOffsets' = r.offsets
           /\ stackSize' = r.returned
    /\ stage' = "replaced"
    /\ UNCHANGED <<input, tokens, program, counter, error, tackyBody, asmCode, rip>>

InsertAllocateStack ==
    /\ stage = "replaced"
    /\ instructions' = insertAllocateStack(instructions, stackSize)
    /\ stage' = "allocated"
    /\ UNCHANGED <<input, tokens, program, counter, error, tackyBody, pseudoOffsets, stackSize,
                   asmCode, rip>>

Legalize ==
    /\ stage = "allocated"
    /\ instructions' = legalizeMovMemoryToMemory(instructions)
    /\ stage' = "legalized"
    /\ UNCHANGED <<input, tokens, program, counter, error, tackyBody, pseudoOffsets, stackSize,
                   asmCode, rip>>

\* writeASMToFile(program, filename); the walk starts at the function's label
Emit ==
    /\ stage = "legalized"
    /\ asmCode' = writeASMToFile(FunctionDefinitionToASM(program.name, instructions))
    /\ rip' = 2
    /\ stage' = "emitted"
    /\ UNCHANGED <<input, tokens, program, counter, error, tackyBody, instructions, pseudoOffsets,
                   stackSize>>

\* control moves from the line at rip to one of its successors
Step ==
    /\ stage = "emitted"
    /\ rip \in 1..Len(asmCode)
    /\ rip' \in Successors(asmCode, rip)
    /\ UNCHANGED <<input, tokens, stage, program, counter, error, tackyBody, instructions,
                   pseudoOffsets, stackSize, asmCode>>

Next ==
    \/ Resolve
    \/ Lower
    \/ Convert
    \/ ReplacePseudos
    \/ InsertAllocateStack
    \/ Legalize
    \/ Emit
    \/ Step

Spec == Init /\ [][Next]_vars

\* the resolver alone, on the scope programs
InitResolve == InitWith(ScopePrograms)
NextResolve == Resolve
SpecResolve == InitResolve /\ [][NextResolve]_vars

\* the resolver alone, on the loop programs
InitLoops == InitWith(LoopPrograms)
NextLoops == Resolve
SpecLoops == InitLoops /\ [][NextLoops]_vars

\* the parser and the resolver, on the token sequences
InitParse ==
    /\ stage = "lexed"
    /\ input = <<>>
    /\ tokens \in TokenSequences
    /\ program = Function("", <<>>)
    /\ counter = 0
    /\ error = ""
    /\ tackyBody = <<>>
    /\ instructions = <<>>
    /\ pseudoOffsets = [n \in {} |-> 0]
    /\ stackSize = 0
    /\ asmCode = <<>>
    /\ rip = 0

\* Parser(tokens).parseProgram()
Parse ==
    /\ stage = "lexed"
    /\ LET r == parseProgram(tokens)
       IN  /\ program' = IF r.err = "" THEN r.node ELSE program
           /\ error' = r.err
           /\ stage' = IF r.err = "" THEN "parsed" ELSE "error"
    /\ UNCHANGED <<input, tokens, counter, tackyBody, instructions, pseudoOffsets,
                   stackSize, asmCode, rip>>

NextParse ==
    \/ Parse
    \/ Resolve

SpecParse == InitParse /\ [][NextParse]_vars

\* the resolver run on one program after the other in the same process
MaxCounter == 4
CompiledPrograms == StatementPrograms \cup LoopPrograms

InitCompiles == InitWith(CompiledPrograms)

\* the host resolves another program: the static int counter of
\* generateUniqueName keeps its value, everything else starts anew
CompileNext ==
    /\ stage \in {"resolved", "error"}
    /\ counter < MaxCounter
    /\ stage' = "parsed"
    /\ program' \in CompiledPrograms
    /\ error' = ""
    /\ UNCHANGED <<input, tokens, counter, tackyBody, instructions, pseudoOffsets,
                   stackSize, asmCode, rip>>

NextCompiles ==
    \/ Resolve
    \/ CompileNext

SpecCompiles == InitCompiles /\ [][NextCompiles]_vars

\* the lexer, on the source texts, and again on its own lexemes
InitLex ==
    /\ stage = "source"
    /\ input \in SourceTexts
    /\ tokens = <<>>
    /\ program = Function("", <<>>)
    /\ counter = 0
    /\ error = ""
    /\ tackyBody = <<>>
    /\ instructions = <<>>
    /\ pseudoOffsets = [n \in {} |-> 0]
    /\ stackSize = 0
    /\ asmCode = <<>>
    /\ rip = 0

\* lexer(filename), the file holding input
LexFile ==
    /\ stage \in {"source", "rejoined"}
    /\ LET r == lexer(input)
       IN  /\ tokens' = r.lexemes
           /\ error' = r.err
           /\ stage' = IF r.err = "" THEN "lexed" ELSE "error"
    /\ UNCHANGED <<input, program, counter, tackyBody, instructions, pseudoOffsets,
                   stackSize, asmCode, rip>>

\* the characters of a word, which are a part of the text it was read from
Characters(word, text) ==
    CHOOSE chars \in {SubSeq(text, a, a + Len(word) - 1) :
                          a \in 1..(Len(text) - Len(word) + 1)} : Str(chars) = word

\* the words of toks joined by single spaces
RECURSIVE Joined(_, _)
Joined(toks, text) ==
    IF toks = <<>> THEN <<>>
    ELSE IF Len(toks) = 1 THEN Characters(toks[1].word, text)
    ELSE Characters(toks[1].word, text) \o <<" ">> \o Joined(Tail(toks), text)

\* a new source file is written from the lexemes of the tokens
Rejoin ==
    /\ stage = "lexed"
    /\ input' = Joined(tokens, input)
    /\ stage' = "rejoined"
    /\ UNCHANGED <<tokens, program, counter, error, tackyBody, instructions,
                   pseudoOffsets, stackSize, asmCode, rip>>

NextLex ==
    \/ LexFile
    \/ Rejoin

SpecLex == InitLex /\ [][NextLex]_vars

\* the pipeline on the programs that compare two operands
InitRelational == InitWith(RelationalPrograms)
SpecRelational == InitRelational /\ [][Next]_vars

\* the pipeline on the programs whose branches nest
InitBranches == InitWith(BranchPrograms)
SpecBranches == InitBranches /\ [][Next]_vars

\* the pipeline on the programs that return `l && r` or `l || r`
InitShortCircuit == InitWith(ShortCircuitPrograms)
SpecShortCircuit == InitShortCircuit /\ [][Next]_vars

\* the parser and the resolver run on the expressions without parentheses
\* and on the conditional expressions
InitExpressions ==
    /\ stage = "lexed"
    /\ input = <<>>
    /\ tokens \in ExpressionTokens \cup ConditionalTokens
    /\ program = Function("", <<>>)
    /\ counter = 0
    /\ error = ""
    /\ tackyBody = <<>>
    /\ instructions = <<>>
    /\ pseudoOffsets = [n \in {} |-> 0]
    /\ stackSize = 0
    /\ asmCode = <<>>
    /\ rip = 0
SpecExpressions == InitExpressions /\ [][NextParse]_vars

\* the resolver alone, on the programs with a for statement
InitFor == InitWith(ForPrograms)
NextFor == Resolve
SpecFor == InitFor /\ [][NextFor]_vars

\* the pipeline on the programs that return `l op r`
InitOrder == InitWith(OrderPrograms)
SpecOrder == InitOrder /\ [][Next]_vars

\* ===================================================== the claims checked

Legalized == stage \in {"legalized", "emitted"}

IsIdiv(instr) == instr.kind = "Idiv"
IsCmp(instr) == instr.kind = "Cmp"
IsMult(instr) == instr.kind = "Binary" /\ instr.op_type = "MULT"

\* C1: in the emitted text every control-flow path from the function entry
\* reaches a ret: control never runs past the last line (nor jumps to a
\* label that no line defines).  The text has no backward jump, so a path
\* that never leaves the text ends at a ret.
C1_EveryPathReachesRet ==
    stage = "emitted" => rip \in 1..Len(asmCode)

\* C2: the last instruction of every TAC function body is a Return, the
\* empty body included.
C2_LastInstructionIsReturn ==
    stage = "lowered" =>
        /\ Len(tackyBody) > 0
        /\ tackyBody[Len(tackyBody)].kind = "Return"

HasTwoStackOperands(instr) ==
    CASE instr.kind \in {"Mov", "Binary"} -> IsMem(instr.src) /\ IsMem(instr.dst)
      [] instr.kind = "Cmp" -> IsMem(instr.lhs) /\ IsMem(instr.rhs)
      [] OTHER -> FALSE

\* C3: after legalizeMovMemoryToMemory no Mov, Binary or Cmp has a Stack
\* operand in both of its operand positions.
C3_NoTwoStackOperands ==
    Legalized => \A i \in 1..Len(instructions) : ~HasTwoStackOperands(instructions[i])

\* a legalized program whose TAC copies a variable, multiplies by a
\* variable and compares two variables: a Mov, a Binary and a Cmp that had
\* two Stack operands before the pass
C3_Witness ==
    /\ stage = "legalized"
    /\ \E i \in 1..Len(tackyBody) :
          tackyBody[i].kind = "Copy" /\ tackyBody[i].src.kind = "Var"
    /\ \E i \in 1..Len(tackyBody) :
          /\ tackyBody[i].kind = "Binary" /\ tackyBody[i].op = "MULTIPLY"
          /\ tackyBody[i].src2.kind = "Var"
    /\ \E i \in 1..Len(tackyBody) :
          /\ tackyBody[i].kind = "Binary" /\ tackyBody[i].op = "LESSTHAN"
          /\ tackyBody[i].src1.kind = "Var" /\ tackyBody[i].src2.kind = "Var"

\* C4 (as amended): after legalizeMovMemoryToMemory no Cmp has an immediate
\* as its first operand, the lhs field, which Cmp::toASM prints last; its
\* second operand, the rhs field, is an immediate only next to R10, which is
\* what a comparison of two constants becomes.
C4_CmpLhsNeverImm ==
    Legalized =>
        \A i \in 1..Len(instructions) :
            IsCmp(instructions[i]) =>
                /\ ~IsImm(instructions[i].lhs)
                /\ IsImm(instructions[i].rhs) => instructions[i].lhs = Register("R10")

\* a legalized comparison of two constants: Mov(Imm, R10); Cmp(R10, Imm)
C4_Witness ==
    /\ stage = "legalized"
    /\ \E i \in 2..Len(instructions) :
          /\ IsCmp(instructions[i])
          /\ instructions[i].lhs = Register("R10")
          /\ IsImm(instructions[i].rhs)
          /\ instructions[i - 1].kind = "Mov"
          /\ IsImm(instructions[i - 1].src)
          /\ instructions[i - 1].dst = Register("R10")

\* C4 as stated: after legalizeMovMemoryToMemory no Cmp has an immediate as
\* its second operand, the rhs field.
C4_CmpRhsNeverImm ==
    Legalized =>
        \A i \in 1..Len(instructions) :
            IsCmp(instructions[i]) => ~IsImm(instructions[i].rhs)

\* the index in s of its k-th Idiv
IdivIndex(s, k) ==
    CHOOSE i \in 1..Len(s) :
        IsIdiv(s[i]) /\ Cardinality({j \in 1..i : IsIdiv(s[j])}) = k

\* post holds the Idivs of pre in their order, each one with an immediate
\* operand n as Mov(Imm n, R10); Idiv(R10), each other one as it was
IdivsLegalized(pre, post) ==
    /\ \A i \in 1..Len(post) : IsIdiv(post[i]) => ~IsImm(post[i].dst)
    /\ Len(SelectSeq(post, IsIdiv)) = Len(SelectSeq(pre, IsIdiv))
    /\ \A k \in 1..Len(SelectSeq(pre, IsIdiv)) :
          IF IsImm(pre[IdivIndex(pre, k)].dst)
          THEN /\ post[IdivIndex(post, k)] = Idiv(Register("R10"))
               /\ IdivIndex(post, k) > 1
               /\ post[IdivIndex(post, k) - 1]
                      = Mov(pre[IdivIndex(pre, k)].dst, Register("R10"))
          ELSE post[IdivIndex(post, k)] = pre[IdivIndex(pre, k)]

\* C5: legalizeMovMemoryToMemory leaves no Idiv with an Imm operand: every
\* Idiv(Imm n) becomes Mov(Imm n, R10); Idiv(R10) and every other Idiv is
\* kept unchanged.
C5_IdivNeverImm ==
    [][stage = "allocated" /\ stage' = "legalized"
          => IdivsLegalized(instructions, instructions')]_vars

\* a legalized division by a constant
C5_Witness ==
    /\ stage = "legalized"
    /\ \E i \in 1..Len(tackyBody) :
          /\ tackyBody[i].kind = "Binary"
          /\ tackyBody[i].op \in {"DIVIDE", "REMAINDER"}
          /\ tackyBody[i].src2.kind = "Constant"
    /\ \E i \in 2..Len(instructions) :
          /\ instructions[i] = Idiv(Register("R10"))
          /\ instructions[i - 1].kind = "Mov" /\ IsImm(instructions[i - 1].src)

VisitedOperands(instr) ==
    CASE instr.kind \in {"Mov", "Binary"} -> <<instr.dst, instr.src>>
      [] instr.kind = "Cmp" -> <<instr.lhs, instr.rhs>>
      [] instr.kind \in {"Unary", "Idiv"} -> <<instr.dst>>
      [] instr.kind = "SetCC" -> <<instr.op>>
      [] OTHER -> <<>>

IsPseudo(op) == op.kind = "Pseudo"

IdentifierOf(op) == <<op.identifier>>

\* the pseudo names of an instruction list in the order they are met
PseudosOf(instr) == FlatMap(IdentifierOf, SelectSeq(VisitedOperands(instr), IsPseudo))
Encountered(instrs) == FlatMap(PseudosOf, instrs)

FirstAt(s, x) == Min({i \in 1..Len(s) : s[i] = x})

\* op with a Pseudo replaced by its slot
InSlot(op, offsets) == IF IsPseudo(op) THEN Stack(offsets[op.identifier]) ELSE op

WithSlots(instr, offsets) ==
    CASE instr.kind \in {"Mov", "Binary"} ->
            [instr EXCEPT !.src = InSlot(@, offsets), !.dst = InSlot(@, offsets)]
      [] instr.kind = "Cmp" ->
            [instr EXCEPT !.lhs = InSlot(@, offsets), !.rhs = InSlot(@, offsets)]
      [] instr.kind \in {"Unary", "Idiv"} -> [instr EXCEPT !.dst = InSlot(@, offsets)]
      [] instr.kind = "SetCC" -> [instr EXCEPT !.op = InSlot(@, offsets)]
      [] OTHER -> instr

\* offsets gives each pseudo name of pre one offset, distinct names distinct
\* offsets, the offsets being -4, -8, ..., -4k in the order the names are
\* first met, and post is pre with every pseudo replaced by its slot
SlotsAssigned(pre, post, offsets) ==
    /\ DOMAIN offsets = {Encountered(pre)[i] : i \in 1..Len(Encountered(pre))}
    /\ \A x, y \in DOMAIN offsets : x # y => offsets[x] # offsets[y]
    /\ {offsets[x] : x \in DOMAIN offsets}
          = {-4 * i : i \in 1..Cardinality(DOMAIN offsets)}
    /\ \A x, y \in DOMAIN offsets :
          FirstAt(Encountered(pre), x) < FirstAt(Encountered(pre), y)
              => offsets[x] > offsets[y]
    /\ Len(post) = Len(pre)
    /\ \A i \in 1..Len(pre) : post[i] = WithSlots(pre[i], offsets)

\* C7: replacePseudosWithStack maps every pseudo name to exactly one stack
\* offset and distinct names to distinct offsets; with k distinct names the
\* offsets used are exactly -4, -8, ..., -4k, assigned in the order the pass
\* first meets the names.
C7_StackSlotsUnique ==
    [][stage = "converted" /\ stage' = "replaced"
          => SlotsAssigned(instructions, instructions', pseudoOffsets')]_vars

\* three names have been given slots, and one slot is used by two operands
C7_Witness ==
    /\ stage = "replaced"
    /\ Cardinality(DOMAIN pseudoOffsets) >= 3
    /\ \E i, j \in 1..Len(instructions) :
          /\ i # j
          /\ instructions[i].kind = "Mov" /\ instructions[j].kind = "Mov"
          /\ IsMem(instructions[i].dst)
          /\ instructions[j].src = instructions[i].dst

HasDst(instr) == instr.kind \in {"Unary", "Binary", "Copy"}

\* C8: in every TAC instruction with a destination (Unary, Binary, Copy) the
\* dst is a Var, never a Constant.
C8_DstIsVar ==
    stage \in {"lowered", "converted", "replaced", "allocated", "legalized", "emitted"}
        => \A i \in 1..Len(tackyBody) :
              HasDst(tackyBody[i]) => tackyBody[i].dst.kind = "Var"

\* a lowered body with a Unary, a Binary and a Copy
C8_Witness ==
    /\ stage = "lowered"
    /\ \E i \in 1..Len(tackyBody) : tackyBody[i].kind = "Unary"
    /\ \E i \in 1..Len(tackyBody) : tackyBody[i].kind = "Binary"
    /\ \E i \in 1..Len(tackyBody) : tackyBody[i].kind = "Copy"

\* ------------------------------------------ the scopes of a program, read
\* off its text: a block entered, a name declared, a name used, a block left

Event(e, x) == [ev |-> e, name |-> x]

RECURSIVE ExpEvents(_)
ExpEvents(expr) ==
    CASE expr.type = "VAR" -> <<Event("use", expr.identifier)>>
      [] expr.type = "UNARY" -> ExpEvents(expr.operand)
      [] expr.type = "BINARY" -> ExpEvents(expr.operand1) \o ExpEvents(expr.operand2)
      [] expr.type = "ASSIGNMENT" -> ExpEvents(expr.exp1) \o ExpEvents(expr.exp2)
      [] expr.type = "CONDITIONAL" ->
            ExpEvents(expr.condition) \o ExpEvents(expr.trueExpr)
                \o ExpEvents(expr.falseExpr)
      [] OTHER -> <<>>

\* the name is declared before its initializer is read
DeclEvents(decl) == <<Event("decl", decl.name)>> \o ExpEvents(decl.initializer)

RECURSIVE StmtEvents(_)
RECURSIVE ItemsEvents(_, _)

BlockEvents(block) ==
    <<Event("enter", "")>> \o ItemsEvents(block, 1) \o <<Event("exit", "")>>

ItemsEvents(items, i) ==
    IF i > Len(items) THEN <<>>
    ELSE (IF items[i].type = "DECLARATION"
          THEN DeclEvents(items[i].declaration)
          ELSE StmtEvents(items[i].statement))
         \o ItemsEvents(items, i + 1)

StmtEvents(stmt) ==
    CASE stmt.type \in {"RETURN", "EXPRESSION"} -> ExpEvents(stmt.expression)
      [] stmt.type = "IF" ->
            ExpEvents(stmt.condition) \o StmtEvents(stmt.thenBranch)
                \o StmtEvents(stmt.elseBranch)
      [] stmt.type = "COMPOUND" -> BlockEvents(stmt.block)
      [] stmt.type \in {"WHILE", "DO_WHILE"} ->
            ExpEvents(stmt.condition) \o StmtEvents(stmt.body)
      [] stmt.type = "FOR" ->
            <<Event("enter", "")>>
                \o (IF stmt.forInit.type = "INIT_DECL"
                    THEN DeclEvents(stmt.forInit.decl)
                    ELSE ExpEvents(stmt.forInit.expr))
                \o ExpEvents(stmt.condition) \o ExpEvents(stmt.postExpr)
                \o StmtEvents(stmt.body)
                \o <<Event("exit", "")>>
      [] OTHER -> <<>>

\* the events e of s after j and up to m
Between(s, j, m, e) == Cardinality({n \in (j + 1)..m : s[n].ev = e})

\* the block that holds event j is still open at event i
Visible(s, j, i) ==
    \A m \in (j + 1)..(i - 1) : Between(s, j, m, "exit") <= Between(s, j, m, "enter")

\* events j and i are items of the same block
SameScope(s, j, i) ==
    /\ Visible(s, j, i)
    /\ Between(s, j, i - 1, "exit") = Between(s, j, i - 1, "enter")

\* the declarations of the name used at i that are in scope at i
Binders(s, i) ==
    {j \in 1..(i - 1) :
        s[j].ev = "decl" /\ s[j].name = s[i].name /\ Visible(s, j, i)}

Unbound(s, i) == s[i].ev = "use" /\ Binders(s, i) = {}

Redeclared(s, i) ==
    /\ s[i].ev = "decl"
    /\ \E j \in 1..(i - 1) :
          s[j].ev = "decl" /\ s[j].name = s[i].name /\ SameScope(s, j, i)

\* the events at which resolution cannot go on
Faults(s) == {i \in 1..Len(s) : Unbound(s, i) \/ Redeclared(s, i)}

DeclNames(s) == SelectSeq(s, LAMBDA e : e.ev = "decl")

\* C9: after resolve_program succeeds no two Declaration nodes of the AST
\* carry the same unique name.
C9_UniqueNamesDistinct ==
    stage = "resolved" =>
        \A i, j \in 1..Len(DeclNames(BlockEvents(program.body))) :
            i # j => DeclNames(BlockEvents(program.body))[i]
                        # DeclNames(BlockEvents(program.body))[j]

\* int a; { int a; int a_0; } resolved: a twice in two scopes, and a source
\* name of the shape of a generated name
C9_Witness ==
    /\ stage = "resolved"
    /\ {"a_0", "a_1", "a_0_2"}
          \subseteq {BlockEvents(program.body)[i].name :
                        i \in 1..Len(BlockEvents(program.body))}
    /\ Len(DeclNames(BlockEvents(program.body))) = 3

\* src and rsv are the events of a program before and after a resolution
\* that ended with error err ("" if it succeeded): with no fault in src every
\* use carries the unique name of the innermost declaration in scope, which
\* is the last one of its binders, and the blocks are as they were; the
\* resolution ends with the undeclared-variable error exactly when the first
\* fault of src is a use that no declaration in scope binds
ResolvedLexically(src, rsv, err) ==
    /\ err = "" <=> Faults(src) = {}
    /\ err = "" =>
          /\ Len(rsv) = Len(src)
          /\ \A i \in 1..Len(src) :
                /\ rsv[i].ev = src[i].ev
                /\ src[i].ev = "use" =>
                      rsv[i].name = rsv[Max(Binders(src, i))].name
    /\ err = "Use of undeclared variable"
          <=> (Faults(src) # {} /\ Unbound(src, Min(Faults(src))))

\* C10: every Var(x) and every assignment target x is renamed to the unique
\* name of the closest enclosing declaration of x in scope at that point; the
\* resolution fails with the undeclared-variable error when no scope declares
\* x; a declaration of an inner block is not visible after the block ends.
C10_ClosestEnclosingDeclaration ==
    [][stage = "parsed" /\ stage' # "parsed"
          => ResolvedLexically(BlockEvents(program.body),
                               BlockEvents(program'.body), error')]_vars

\* int a; { int a; return a; } return a; resolved: the use in the block
\* names the inner declaration, the use after it the outer one
C10_Witness ==
    /\ stage = "resolved"
    /\ BlockEvents(program.body)
          = <<Event("enter", ""), Event("decl", "a_0"),
              Event("enter", ""), Event("enter", ""),
              Event("decl", "a_1"), Event("use", "a_1"),
              Event("exit", ""), Event("exit", ""),
              Event("use", "a_0"), Event("exit", "")>>

\* the declarations of src before its first fault
DeclaredBeforeFault(src) ==
    {j \in 1..(Min(Faults(src)) - 1) : src[j].ev = "decl"}

\* src and rsv are the events of a program before and after a resolution
\* that ended with error err and generated made names: the resolution ends
\* with the redeclaration error exactly when the first fault of src is a
\* declaration of a name already declared in the same block, and then the
\* names generated are those of the declarations before it; a declaration
\* of a name declared only in an enclosing block gets a name of its own
RedeclarationRejected(src, rsv, err, made) ==
    /\ err = "Variable is already declared in this scope"
          <=> (Faults(src) # {} /\ Redeclared(src, Min(Faults(src))))
    /\ err = "Variable is already declared in this scope"
          => made = Cardinality(DeclaredBeforeFault(src))
    /\ err = "" =>
          \A i \in 1..Len(src) : \A j \in 1..(i - 1) :
              (/\ src[i].ev = "decl" /\ src[j].ev = "decl"
               /\ src[j].name = src[i].name
               /\ Visible(src, j, i))
                  => rsv[i].name # rsv[j].name

\* C11: declaring a name already present in the innermost scope makes the
\* resolution fail; declaring a name present only in an outer scope succeeds
\* and shadows it; the failing declaration generates no unique name.
C11_RedeclarationSameScopeOnly ==
    [][stage = "parsed" /\ stage' # "parsed"
          => RedeclarationRejected(BlockEvents(program.body),
                                   BlockEvents(program'.body),
                                   error', counter' - counter)]_vars

\* int a; { int a; } int a; rejected at the third declaration, after two
\* names were generated
C11_Witness ==
    /\ stage = "error"
    /\ error = "Variable is already declared in this scope"
    /\ counter = 2
    /\ BlockEvents(program.body)
          = <<Event("enter", ""), Event("decl", "a"),
              Event("enter", ""), Event("decl", "a"), Event("exit", ""),
              Event("decl", "a"), Event("exit", "")>>

\* ------------------------------------------- the loops of a program, read
\* off its text: a loop entered (with its label), a break or continue (with
\* its label), a loop left

RECURSIVE LoopEvents(_)
RECURSIVE LoopItemsEvents(_, _)

LoopItemsEvents(items, i) ==
    IF i > Len(items) THEN <<>>
    ELSE (IF items[i].type = "STATEMENT"
          THEN LoopEvents(items[i].statement) ELSE <<>>)
         \o LoopItemsEvents(items, i + 1)

LoopEvents(stmt) ==
    CASE stmt.type \in {"WHILE", "DO_WHILE", "FOR"} ->
            <<Event("loop", stmt.label)>> \o LoopEvents(stmt.body)
                \o <<Event("endloop", "")>>
      [] stmt.type \in {"BREAK", "CONTINUE"} -> <<Event("jump", stmt.label)>>
      [] stmt.type = "IF" -> LoopEvents(stmt.thenBranch) \o LoopEvents(stmt.elseBranch)
      [] stmt.type = "COMPOUND" -> LoopItemsEvents(stmt.block, 1)
      [] OTHER -> <<>>

\* the loops that enclose event i, the last one being the innermost
OpenLoops(s, i) ==
    {j \in 1..(i - 1) :
        /\ s[j].ev = "loop"
        /\ \A m \in (j + 1)..(i - 1) :
              Between(s, j, m, "endloop") <= Between(s, j, m, "loop")}

Stray(s, i) == s[i].ev = "jump" /\ OpenLoops(s, i) = {}

\* src and rsv are the loop events of a program before and after a
\* resolution that ended with error err: it fails, with the break/continue
\* error, exactly when a break or continue of src is outside of every loop;
\* otherwise every break and continue carries a non-empty label, the one of
\* its innermost enclosing loop and of no other loop
LabelsResolved(src, rsv, err) ==
    /\ err = "break/continue used outside of a loop"
          <=> \E i \in 1..Len(src) : Stray(src, i)
    /\ err # "" <=> \E i \in 1..Len(src) : Stray(src, i)
    /\ err = "" =>
          /\ Len(rsv) = Len(src)
          /\ \A i \in 1..Len(src) :
                /\ rsv[i].ev = src[i].ev
                /\ src[i].ev = "jump" =>
                      /\ rsv[i].name # ""
                      /\ rsv[i].name = rsv[Max(OpenLoops(src, i))].name
                      /\ \A j \in 1..Len(src) :
                            (src[j].ev = "loop" /\ j # Max(OpenLoops(src, i)))
                                => rsv[j].name # rsv[i].name

\* C12: after a successful resolution every Break and Continue carries a
\* non-empty label, the label of its innermost enclosing while, do-while or
\* for loop, also through if statements and blocks; a Break or Continue
\* outside of every loop makes the resolution fail.
C12_JumpLabelsInnermostLoop ==
    [][stage = "parsed" /\ stage' # "parsed"
          => LabelsResolved(LoopItemsEvents(program.body, 1),
                            LoopItemsEvents(program'.body, 1), error')]_vars

\* while (1) for (;;) if (1) break; resolved: the break carries the label
\* of the for loop
C12_Witness ==
    /\ stage = "resolved"
    /\ LoopItemsEvents(program.body, 1)
          = <<Event("loop", "loop_0"), Event("loop", "loop_1"),
              Event("jump", "loop_1"),
              Event("endloop", ""), Event("endloop", "")>>
    /\ \E i \in 1..Len(program.body) :
          /\ program.body[i].type = "STATEMENT"
          /\ program.body[i].statement.type = "WHILE"
          /\ program.body[i].statement.body.type = "FOR"
          /\ program.body[i].statement.body.body.type = "IF"
          /\ program.body[i].statement.body.body.thenBranch.type = "BREAK"

\* ---- C13

\* every expression node below expr, expr included
RECURSIVE SubExpressions(_)
SubExpressions(expr) ==
    {expr} \cup
    CASE expr.type = "UNARY" -> SubExpressions(expr.operand)
      [] expr.type = "BINARY" ->
            SubExpressions(expr.operand1) \cup SubExpressions(expr.operand2)
      [] expr.type = "ASSIGNMENT" ->
            SubExpressions(expr.exp1) \cup SubExpressions(expr.exp2)
      [] expr.type = "CONDITIONAL" ->
            SubExpressions(expr.condition) \cup SubExpressions(expr.trueExpr)
                \cup SubExpressions(expr.falseExpr)
      [] OTHER -> {}

\* every expression node of a statement, a declaration or a block
RECURSIVE ExpressionsOfStatement(_)
RECURSIVE ExpressionsOfBlock(_)
ExpressionsOfDeclaration(decl) == SubExpressions(decl.initializer)

ExpressionsOfStatement(stmt) ==
    CASE stmt.type \in {"RETURN", "EXPRESSION"} -> SubExpressions(stmt.expression)
      [] stmt.type = "IF" ->
            SubExpressions(stmt.condition) \cup ExpressionsOfStatement(stmt.thenBranch)
                \cup ExpressionsOfStatement(stmt.elseBranch)
      [] stmt.type = "COMPOUND" -> ExpressionsOfBlock(stmt.block)
      [] stmt.type \in {"WHILE", "DO_WHILE"} ->
            SubExpressions(stmt.condition) \cup ExpressionsOfStatement(stmt.body)
      [] stmt.type = "FOR" ->
            (IF stmt.forInit.type = "INIT_DECL"
             THEN ExpressionsOfDeclaration(stmt.forInit.decl)
             ELSE SubExpressions(stmt.forInit.expr))
                \cup SubExpressions(stmt.condition) \cup SubExpressions(stmt.postExpr)
                \cup ExpressionsOfStatement(stmt.body)
      [] OTHER -> {}

ExpressionsOfBlock(items) ==
    UNION { IF items[i].type = "DECLARATION"
            THEN ExpressionsOfDeclaration(items[i].declaration)
            ELSE ExpressionsOfStatement(items[i].statement) : i \in DOMAIN items }

\* the kinds of left-hand side that are not a Var, among the assignments of fn
NonVarTargets(fn) ==
    { e.exp1.type : e \in { x \in ExpressionsOfBlock(fn.body) :
                              x.type = "ASSIGNMENT" /\ x.exp1.type # "VAR" } }

\* C13: a program the parser built that holds, anywhere, an assignment whose
\* left-hand side is not a Var (a constant, a unary, binary, conditional or
\* assignment expression) is rejected by the resolver.
C13_NonVarAssignmentRejected ==
    [][(stage = "parsed" /\ tokens # <<>> /\ NonVarTargets(program) # {})
           => stage' = "error"]_vars

\* the parser accepted an assignment to a conditional expression and the
\* resolver rejected it for its left-hand side
C13_Witness ==
    /\ stage = "error"
    /\ parseProgram(tokens).err = ""
    /\ error = "Left-hand side of assignment must be a variable"
    /\ "CONDITIONAL" \in NonVarTargets(program)

\* ---- C14

\* C14: the names and loop labels the resolver gives a program do not depend
\* on the programs resolved before it in the same process: they are the ones
\* of a compile whose counters start anew.
C14_NamesIndependentOfEarlierCompiles ==
    [][(stage = "parsed" /\ stage' = "resolved")
           => program' = resolve_program(program, 0).node]_vars

\* ---- C15

Keywords ==
    {"int", "void", "return", "if", "else", "do", "while", "for", "break", "continue"}

\* C15: every token the lexer emits whose lexeme is one of the ten keywords
\* has the token kind of that keyword, never IDENTIFIER, and the lexeme
\* `integer` is an IDENTIFIER.
C15_KeywordsHaveTheirOwnKind ==
    stage = "lexed" =>
        \A k \in DOMAIN tokens :
            /\ tokens[k].word \in Keywords
                    => tokens[k].token = TokenOfWord(tokens[k].word)
            /\ tokens[k].word = "integer" => tokens[k].token = "IDENTIFIER"

\* ---- C16

\* the text opens a block comment, outside of any other comment, and holds
\* no `*/` after it
UnterminatedComment(text) ==
    \E i \in 1..(Len(text) - 1) :
        /\ text[i] = "/" /\ text[i + 1] = "*"
        /\ \A j \in 1..(i - 1) : text[j] \notin {"/", "#"}
        /\ \A j \in (i + 2)..(Len(text) - 1) : ~(text[j] = "*" /\ text[j + 1] = "/")

\* C16: lexing a source text with a block comment that is never closed ends
\* in a lexical error; the text is not turned into tokens.
C16_UnterminatedCommentRejected ==
    [][(stage = "source" /\ UnterminatedComment(input)) => stage' = "error"]_vars

\* ---- C17

SameTokens(s, t) ==
    /\ Len(s) = Len(t)
    /\ \A k \in DOMAIN s : s[k].word = t[k].word /\ s[k].token = t[k].token

\* C17: lexing the lexemes of a token sequence the lexer produced, joined by
\* single spaces, gives the same kinds and lexemes in the same order.
C17_RejoinedLexesTheSame ==
    [][stage = "rejoined" => (stage' = "lexed" /\ SameTokens(tokens', tokens))]_vars

\* the lexemes of two tokens `-`, which side by side would be one `--`, were
\* joined by a space, and so were those of a constant and an identifier
C17_Witness ==
    /\ stage = "rejoined"
    /\ \/ \E k \in 1..(Len(tokens) - 1) :
              tokens[k].token = "NEGATION" /\ tokens[k + 1].token = "NEGATION"
       \/ \E k \in 1..(Len(tokens) - 1) :
              tokens[k].token = "CONSTANT" /\ tokens[k + 1].token = "IDENTIFIER"
    /\ input = Joined(tokens, input)

\* ---- C18

\* the texts the parser hands to Parser::error, for the tokens toks
ParserMessages(toks) ==
    { "Expected '(' after 'for'",
      "Expected '(' after 'if'",
      "Expected '(' after 'while'",
      "Expected '(' after function name",
      "Expected ')' after 'void'",
      "Expected ')' after condition",
      "Expected ')' after expression",
      "Expected ')' after for-loop clauses",
      "Expected ')' after while condition",
      "Expected ':' in conditional expression",
      "Expected ';' after 'break'",
      "Expected ';' after 'continue'",
      "Expected ';' after declaration",
      "Expected ';' after do-while loop",
      "Expected ';' after expression statement",
      "Expected ';' after for-loop condition",
      "Expected ';' after for-loop declaration",
      "Expected ';' after for-loop init expression",
      "Expected ';' after return expression",
      "Expected 'int' at function start",
      "Expected 'void' in parameter list",
      "Expected 'while' after 'do' body",
      "Expected '{' to begin function body",
      "Expected function name",
      "Expected identifier after 'int'",
      "Expected identifier in for-loop declaration",
      "Incomplete conditional expression",
      "Unexpected token after function" }
    \cup {"Unexpected token in expression: " \o w :
              w \in {toks[k].word : k \in DOMAIN toks} \cup {""}}

\* msg is a text of the parser with `line n` in it, n being 0 or the number
\* of a line of the source
HasLineNumber(msg, toks) ==
    \E n \in 0..Max({toks[k].line : k \in DOMAIN toks} \cup {0}) :
        \E m \in ParserMessages(toks) :
            msg = "Parse error at line " \o ToString(n) \o ": " \o m

\* C18: when the parser rejects its tokens, also when they end too early,
\* the message of the error holds a line number.
C18_ParseErrorHasLineNumber ==
    (stage = "error" /\ parseProgram(tokens).err # "") => HasLineNumber(error, tokens)

\* ---- C19

\* every statement below stmt, stmt included, and every statement of a block
RECURSIVE SubStatements(_)
RECURSIVE StatementsOfBlock(_)
SubStatements(stmt) ==
    {stmt} \cup
    CASE stmt.type = "IF" ->
            SubStatements(stmt.thenBranch) \cup SubStatements(stmt.elseBranch)
      [] stmt.type = "COMPOUND" -> StatementsOfBlock(stmt.block)
      [] stmt.type \in {"WHILE", "DO_WHILE", "FOR"} -> SubStatements(stmt.body)
      [] OTHER -> {}

StatementsOfBlock(items) ==
    UNION {SubStatements(items[i].statement) :
              i \in {j \in DOMAIN items : items[j].type = "STATEMENT"}}

\* body holds, in this order, Label(start_L), JumpIfZero(v, break_L),
\* Jump(start_L) and right after it Label(break_L), and between the
\* JumpIfZero and the last Jump one jump for every Break(L) and Continue(L)
\* of the loop
WhileLowered(loop, body) ==
    \E i, j, k \in DOMAIN body :
        /\ i < j /\ j < k /\ k < Len(body)
        /\ body[i] = TackyLabel("start_" \o loop.label)
        /\ body[j].kind = "JumpIfZero" /\ body[j].target = "break_" \o loop.label
        /\ body[k] = TackyJump("start_" \o loop.label)
        /\ body[k + 1] = TackyLabel("break_" \o loop.label)
        /\ \A s \in SubStatements(loop.body) :
              /\ (s.type = "BREAK" /\ s.label = loop.label) =>
                    \E m \in (j + 1)..(k - 1) :
                        body[m] = TackyJump("break_" \o loop.label)
              /\ (s.type = "CONTINUE" /\ s.label = loop.label) =>
                    \E m \in (j + 1)..(k - 1) :
                        body[m] = TackyJump("start_" \o loop.label)

\* C19: the TAC of a function holds, for every While(c, body, L) of the
\* resolved AST, the loop's instructions: Label(start_L), the condition,
\* JumpIfZero(v, break_L), the body, Jump(start_L), Label(break_L), with the
\* Break(L) and Continue(L) of the body lowered to jumps to break_L and start_L.
C19_WhileLowered ==
    stage = "lowered" =>
        \A loop \in {s \in StatementsOfBlock(program.body) : s.type = "WHILE"} :
            WhileLowered(loop, tackyBody)

\* ---- C20

\* The machine the emitted text runs on: the 32-bit value of every register
\* and stack slot written so far, under the text of its operand, and under
\* "flags" the difference y - x of the last `cmpl x, y`.
IsImmediate(operand) == \E n \in 0..MaxValue : operand = "$" \o ToString(n)
ValueOf(machine, operand) ==
    IF IsImmediate(operand)
    THEN CHOOSE n \in 0..MaxValue : operand = "$" \o ToString(n)
    ELSE machine[operand]

Written(machine, operand, v) ==
    [o \in DOMAIN machine \cup {operand} |-> IF o = operand THEN v ELSE machine[o]]

\* set<cc> after a comparison whose flags come from diff
ConditionHolds(mnemonic, diff) ==
    CASE mnemonic = "sete" -> diff = 0
      [] mnemonic = "setne" -> diff # 0
      [] mnemonic = "setl" -> diff < 0
      [] mnemonic = "setle" -> diff <= 0
      [] mnemonic = "setg" -> diff > 0
      [] mnemonic = "setge" -> diff >= 0

\* one line executed: movl copies, cmpl sets the flags from its second
\* operand minus its first, set<cc> writes the low byte of its operand
Executed(machine, line) ==
    CASE line.mnemonic = "movl" ->
            Written(machine, line.operands[2], ValueOf(machine, line.operands[1]))
      [] line.mnemonic = "cmpl" ->
            Written(machine, "flags",
                    ValueOf(machine, line.operands[2]) - ValueOf(machine, line.operands[1]))
      [] line.mnemonic \in {"sete", "setne", "setl", "setle", "setg", "setge"} ->
            Written(machine, line.operands[1],
                    machine[line.operands[1]] - (machine[line.operands[1]] % 256)
                        + (IF ConditionHolds(line.mnemonic, machine["flags"]) THEN 1 ELSE 0))
      [] OTHER -> machine

\* the machine when control, entering at line i, reaches the first ret
RECURSIVE RunToRet(_, _, _)
RunToRet(lines, i, machine) ==
    IF i > Len(lines) \/ lines[i].mnemonic = "ret" THEN machine
    ELSE RunToRet(lines, i + 1, Executed(machine, lines[i]))

\* the value of an operand of the compared pair: a constant, or the
\* constant its variable was initialized with
OperandValue(fn, operand) ==
    IF operand.type = "CONSTANT" THEN operand.value
    ELSE LET d == CHOOSE i \in DOMAIN fn.body :
                      /\ fn.body[i].type = "DECLARATION"
                      /\ fn.body[i].declaration.name = operand.identifier
         IN  fn.body[d].declaration.initializer.value

Related(rel, a, b) ==
    CASE rel = "EQUAL" -> a = b
      [] rel = "NOTEQUAL" -> a # b
      [] rel = "LESSTHAN" -> a < b
      [] rel = "LESSEQ" -> a <= b
      [] rel = "GREATERTHAN" -> a > b
      [] rel = "GREATEREQ" -> a >= b

\* the expression `x rel y` the program returns
Returned(fn) == fn.body[Len(fn.body)].statement.expression

\* C20: the text emitted for `return x rel y`, run with `cmpl x, y` setting
\* the flags from y - x, returns 1 when the value of x and the value of y are
\* in the relation rel and 0 when they are not, for constant and variable
\* operands.
C20_RelationalResult ==
    stage = "emitted" =>
        RunToRet(asmCode, 1, << >>)["%eax"] =
            IF Related(Returned(program).bin_op,
                       OperandValue(program, Returned(program).operand1),
                       OperandValue(program, Returned(program).operand2))
            THEN 1 ELSE 0

\* ---- C21

\* the distinct pseudo names of an instruction list
PseudoNames(instrs) == {Encountered(instrs)[i] : i \in 1..Len(Encountered(instrs))}

\* C21: replacePseudosWithStack returns 4 times the number of distinct pseudo
\* names of the program, the bytes its stack slots need, and 0 for a program
\* without a pseudo operand.
C21_ReturnsBytesNeeded ==
    [][stage = "converted" /\ stage' = "replaced"
          => stackSize' = 4 * Cardinality(PseudoNames(instructions))]_vars

\* ---- C22

\* the offsets of the Stack operands of an instruction list
StackOffsets(instrs) ==
    {VisitedOperands(instrs[i])[j].value :
        <<i, j>> \in {<<i, j>> \in (1..Len(instrs)) \X (1..2) :
                        /\ j <= Len(VisitedOperands(instrs[i]))
                        /\ VisitedOperands(instrs[i])[j].kind = "Stack"}}

\* C22: insertAllocateStack(program, n), with n the byte count returned by
\* replacePseudosWithStack, puts AllocateStack(n), n >= 0, in front of the
\* other instructions and keeps their order, and every Stack(o) operand of the
\* program lies within the n bytes allocated: -o <= n.
C22_AllocateStackCoversSlots ==
    [][stage = "replaced" /\ stage' = "allocated"
          => /\ stackSize >= 0
             /\ instructions' = <<AllocateStack(stackSize)>> \o instructions
             /\ \A o \in StackOffsets(instructions) : -o <= stackSize]_vars

\* ---- C23

\* the operands of every instruction of a list, as <<i, j>> |-> operand
OperandPositions(instrs) ==
    {<<i, j>> \in (1..Len(instrs)) \X (1..2) : j <= Len(VisitedOperands(instrs[i]))}

OperandAt(instrs, p) == VisitedOperands(instrs[p[1]])[p[2]]

PseudosReplaced(pre, post) ==
    /\ \A p \in OperandPositions(pre) : OperandAt(pre, p).kind # "Stack"
    /\ Len(post) = Len(pre)
    /\ \A i \in 1..Len(pre) :
          /\ post[i].kind = pre[i].kind
          /\ Len(VisitedOperands(post[i])) = Len(VisitedOperands(pre[i]))
    /\ \A p \in OperandPositions(post) : OperandAt(post, p).kind # "Pseudo"
    /\ \A p \in OperandPositions(pre) :
          IF OperandAt(pre, p).kind = "Pseudo"
          THEN OperandAt(post, p).kind = "Stack"
          ELSE OperandAt(post, p) = OperandAt(pre, p)
    /\ \A p, q \in OperandPositions(pre) :
          (/\ OperandAt(pre, p).kind = "Pseudo"
           /\ OperandAt(pre, q).kind = "Pseudo"
           /\ OperandAt(pre, p).identifier = OperandAt(pre, q).identifier)
              => OperandAt(post, p) = OperandAt(post, q)

\* C23: the program convertTackyToASDL produces holds no Stack operand; after
\* replacePseudosWithStack no instruction holds a Pseudo operand, every
\* occurrence of one pseudo name has become the same Stack operand, and the
\* Imm and Register operands are as they were.
C23_NoPseudoRemains ==
    [][stage = "converted" /\ stage' = "replaced"
          => PseudosReplaced(instructions, instructions')]_vars

\* a pass that replaced one name in a Cmp and in a SetCC, and kept an Imm and
\* a Register
C23_Witness ==
    /\ stage = "replaced"
    /\ \E i, j, k \in 1..Len(instructions) :
          /\ instructions[i].kind = "Cmp"
          /\ instructions[i].lhs.kind = "Stack"
          /\ instructions[j].kind = "SetCC"
          /\ instructions[j].op.kind = "Stack"
          /\ instructions[k].kind = "Mov"
          /\ instructions[k].src.kind = "Imm"
          /\ instructions[k].dst = instructions[j].op
    /\ \E i \in 1..Len(instructions) :
          /\ instructions[i].kind = "Mov"
          /\ instructions[i].dst.kind = "Register"

\* ---- C24

\* the positions of the Label instructions of a TAC body
LabelPositions(body) == {i \in 1..Len(body) : body[i].kind = "Label"}

\* C24: in the TAC the lowerer produces, no two Label instructions have the
\* same name, however &&, ||, conditional expressions and if statements nest.
C24_LabelsUnique ==
    \A i, j \in LabelPositions(tackyBody) :
        tackyBody[i].name = tackyBody[j].name => i = j

\* a lowered program with the labels of an if statement, of a conditional
\* expression and of two short-circuit operators
C24_Witness ==
    /\ stage = "lowered"
    /\ Cardinality(LabelPositions(tackyBody)) >= 8
    /\ \E i, j \in LabelPositions(tackyBody) :
          /\ i < j
          /\ tackyBody[i].name = "cond_end_3"
          /\ tackyBody[j].name = "endif_5"

\* ---- C25

\* The TAC machine: env gives every variable written so far its value.
TacValue(env, v) == IF v.kind = "Constant" THEN v.value ELSE env[v.name]

TacAssigned(env, name, v) ==
    [x \in DOMAIN env \cup {name} |-> IF x = name THEN v ELSE env[x]]

TacUnaryResult(op, x) ==
    CASE op = "Not" -> IF x = 0 THEN 1 ELSE 0
      [] op = "Negate" -> -x
      [] op = "Complement" -> -x - 1

TacBinaryResult(op, x, y) ==
    CASE op = "ADD" -> x + y
      [] op = "SUBTRACT" -> x - y
      [] op = "MULTIPLY" -> x * y
      [] op \in RelationalOps -> IF Related(op, x, y) THEN 1 ELSE 0

TacLabelAt(body, name) == CHOOSE i \in 1..Len(body) : body[i] = TackyLabel(name)

\* the instructions executed from pc on, each with the values before it: the
\* run ends at the first Return
RECURSIVE TacTrace(_, _, _, _)
TacTrace(body, pc, env, trace) ==
    IF pc > Len(body) THEN trace
    ELSE CASE body[pc].kind = "Return" -> Append(trace, [pc |-> pc, env |-> env])
           [] body[pc].kind = "Copy" ->
                TacTrace(body, pc + 1,
                         TacAssigned(env, body[pc].dst.name, TacValue(env, body[pc].src)),
                         Append(trace, [pc |-> pc, env |-> env]))
           [] body[pc].kind = "Unary" ->
                TacTrace(body, pc + 1,
                         TacAssigned(env, body[pc].dst.name,
                                     TacUnaryResult(body[pc].op, TacValue(env, body[pc].src))),
                         Append(trace, [pc |-> pc, env |-> env]))
           [] body[pc].kind = "Binary" ->
                TacTrace(body, pc + 1,
                         TacAssigned(env, body[pc].dst.name,
                                     TacBinaryResult(body[pc].op,
                                                     TacValue(env, body[pc].src1),
                                                     TacValue(env, body[pc].src2))),
                         Append(trace, [pc |-> pc, env |-> env]))
           [] body[pc].kind = "Jump" ->
                TacTrace(body, TacLabelAt(body, body[pc].target), env,
                         Append(trace, [pc |-> pc, env |-> env]))
           [] body[pc].kind = "JumpIfZero" ->
                TacTrace(body,
                         IF TacValue(env, body[pc].condition) = 0
                         THEN TacLabelAt(body, body[pc].target) ELSE pc + 1,
                         env, Append(trace, [pc |-> pc, env |-> env]))
           [] body[pc].kind = "JumpIfNotZero" ->
                TacTrace(body,
                         IF TacValue(env, body[pc].condition) # 0
                         THEN TacLabelAt(body, body[pc].target) ELSE pc + 1,
                         env, Append(trace, [pc |-> pc, env |-> env]))
           [] body[pc].kind = "Label" ->
                TacTrace(body, pc + 1, env, Append(trace, [pc |-> pc, env |-> env]))

\* the names newLabel gives with one base
LabelNames(base, most) ==
    {newLabel(base, [NewLowerer EXCEPT !.labelCounter = n]).name : n \in 0..most}

\* the jumps of one kind to the labels of one base
JumpsTo(body, kind, base) ==
    {p \in 1..Len(body) :
        body[p].kind = kind /\ body[p].target \in LabelNames(base, Len(body))}

\* the first jump of each pair: the one taken on the left operand
LeftJumps(body, kind, base) ==
    {p \in JumpsTo(body, kind, base) :
        \A q \in JumpsTo(body, kind, base) : body[q].target = body[p].target => p <= q}

\* jump p on the left operand skips the right operand: the second jump q to
\* the same label follows it, then the copy of `kept`, the jump to the end,
\* the label, the copy of `skipped` and the end label; and a run that takes
\* the jump at p executes nothing between p and the label and leaves
\* `skipped` in the result
SkipsRight(body, trace, p, kept, skipped) ==
    \E q \in (p + 1)..(Len(body) - 5) :
        /\ {j \in 1..Len(body) : j # p /\ body[j].kind = body[p].kind
                                      /\ body[j].target = body[p].target} = {q}
        /\ body[q + 1].kind = "Copy" /\ body[q + 1].src = TackyConstant(kept)
        /\ body[q + 2].kind = "Jump"
        /\ body[q + 3] = TackyLabel(body[p].target)
        /\ body[q + 4] = TackyCopy(TackyConstant(skipped), body[q + 1].dst)
        /\ body[q + 5] = TackyLabel(body[q + 2].target)
        /\ \A k \in 1..Len(trace) :
              (/\ trace[k].pc = p
               /\ (TacValue(trace[k].env, body[p].condition) = 0)
                      = (body[p].kind = "JumpIfZero"))
                  => /\ k + 3 <= Len(trace)
                     /\ trace[k + 1].pc = q + 3
                     /\ trace[k + 2].pc = q + 4
                     /\ trace[k + 3].pc = q + 5
                     /\ trace[k + 3].env[body[q + 1].dst.name] = skipped

\* the right operand of the returned expression `l op r` is lowered between
\* the two jumps of that expression: the instructions between them are those
\* lowerExpression pushes for r, and the second jump tests its value
RightLoweredBetween(body, p, q, right) ==
    \E tc \in 0..Len(body), lc \in 0..Len(body) :
        /\ SubSeq(body, p + 1, q - 1)
              = lowerExpression(right, [NewLowerer EXCEPT !.tempCounter = tc,
                                                          !.labelCounter = lc]).st.instructions
        /\ body[q].condition
              = lowerExpression(right, [NewLowerer EXCEPT !.tempCounter = tc,
                                                          !.labelCounter = lc]).val

RightBetweenJumps(body, kind, base, right) ==
    \E p \in LeftJumps(body, kind, base) :
        /\ Len(body) - 6 \in JumpsTo(body, kind, base) \ {p}
        /\ body[Len(body) - 6].target = body[p].target
        /\ RightLoweredBetween(body, p, Len(body) - 6, right)

\* C25: in the TAC of `a && b` the instructions of b lie between
\* JumpIfZero(va, false_lbl) and JumpIfZero(vb, false_lbl); when va is 0 the
\* run goes from the first jump to Label(false_lbl) without executing an
\* instruction of b and the result is 0. For `a || b` the same holds with
\* JumpIfNotZero: a non-zero va skips b and the result is 1.
C25_ShortCircuit ==
    stage = "lowered" =>
        /\ \A p \in LeftJumps(tackyBody, "JumpIfZero", "false") :
              SkipsRight(tackyBody, TacTrace(tackyBody, 1, << >>, <<>>), p, 1, 0)
        /\ \A p \in LeftJumps(tackyBody, "JumpIfNotZero", "true") :
              SkipsRight(tackyBody, TacTrace(tackyBody, 1, << >>, <<>>), p, 0, 1)
        /\ Returned(program).bin_op = "AND"
              => RightBetweenJumps(tackyBody, "JumpIfZero", "false",
                                   Returned(program).operand2)
        /\ Returned(program).bin_op = "OR"
              => RightBetweenJumps(tackyBody, "JumpIfNotZero", "true",
                                   Returned(program).operand2)

\* the positions a run visits
Visited(trace) == {trace[k].pc : k \in 1..Len(trace)}

\* a run in which the left operand of the returned && is 0 and the right
\* operand, which assigns, is skipped, and one in which the left operand of
\* the returned || is not 0
C25_Witness ==
    /\ stage = "lowered"
    /\ Returned(program).operand2.type \in {"ASSIGNMENT", "BINARY"}
    /\ \E p \in LeftJumps(tackyBody, "JumpIfZero", "false")
               \cup LeftJumps(tackyBody, "JumpIfNotZero", "true") :
          /\ tackyBody[p].target = tackyBody[Len(tackyBody) - 6].target
          /\ p < Len(tackyBody) - 7
          /\ p \in Visited(TacTrace(tackyBody, 1, << >>, <<>>))
          /\ p + 1 \notin Visited(TacTrace(tackyBody, 1, << >>, <<>>))

\* ---- C26

\* the level of the operator at the root of an expression, by the table of
\* the specification; a factor is above every operator
IsFactor(expr) == expr.type \in {"VAR", "CONSTANT", "UNARY"}
LevelOf(expr) ==
    CASE expr.type = "BINARY" /\ expr.bin_op \in {"MULTIPLY", "DIVIDE", "REMAINDER"} -> 50
      [] expr.type = "BINARY" /\ expr.bin_op \in {"ADD", "SUBTRACT"} -> 45
      [] expr.type = "BINARY"
            /\ expr.bin_op \in {"LESSTHAN", "LESSEQ", "GREATERTHAN", "GREATEREQ"} -> 35
      [] expr.type = "BINARY" /\ expr.bin_op \in {"EQUAL", "NOTEQUAL"} -> 30
      [] expr.type = "BINARY" /\ expr.bin_op = "AND" -> 10
      [] expr.type = "BINARY" /\ expr.bin_op = "OR" -> 5
      [] expr.type = "CONDITIONAL" -> 3
      [] expr.type = "ASSIGNMENT" -> 1
      [] IsFactor(expr) -> 100

\* the word of an operator of the tree
OperatorWord(expr) ==
    CASE expr.type = "ASSIGNMENT" -> "="
      [] expr.type = "UNARY" /\ expr.un_op = "COMPLEMENT" -> "~"
      [] expr.type = "UNARY" /\ expr.un_op = "NEGATE" -> "-"
      [] expr.type = "UNARY" /\ expr.un_op = "NOT" -> "!"
      [] expr.type = "BINARY" /\ expr.bin_op = "MULTIPLY" -> "*"
      [] expr.type = "BINARY" /\ expr.bin_op = "DIVIDE" -> "/"
      [] expr.type = "BINARY" /\ expr.bin_op = "REMAINDER" -> "%"
      [] expr.type = "BINARY" /\ expr.bin_op = "ADD" -> "+"
      [] expr.type = "BINARY" /\ expr.bin_op = "SUBTRACT" -> "-"
      [] expr.type = "BINARY" /\ expr.bin_op = "LESSTHAN" -> "<"
      [] expr.type = "BINARY" /\ expr.bin_op = "LESSEQ" -> "<="
      [] expr.type = "BINARY" /\ expr.bin_op = "GREATERTHAN" -> ">"
      [] expr.type = "BINARY" /\ expr.bin_op = "GREATEREQ" -> ">="
      [] expr.type = "BINARY" /\ expr.bin_op = "EQUAL" -> "=="
      [] expr.type = "BINARY" /\ expr.bin_op = "NOTEQUAL" -> "!="
      [] expr.type = "BINARY" /\ expr.bin_op = "AND" -> "&&"
      [] expr.type = "BINARY" /\ expr.bin_op = "OR" -> "||"

\* the words of a tree read from left to right
RECURSIVE WordsOf(_)
WordsOf(expr) ==
    CASE expr.type = "VAR" -> <<expr.identifier>>
      [] expr.type = "CONSTANT" -> <<ToString(expr.value)>>
      [] expr.type = "UNARY" -> <<OperatorWord(expr)>> \o WordsOf(expr.operand)
      [] expr.type = "BINARY" ->
            WordsOf(expr.operand1) \o <<OperatorWord(expr)>> \o WordsOf(expr.operand2)
      [] expr.type = "ASSIGNMENT" ->
            WordsOf(expr.exp1) \o <<OperatorWord(expr)>> \o WordsOf(expr.exp2)
      [] expr.type = "CONDITIONAL" ->
            WordsOf(expr.condition) \o <<"?">> \o WordsOf(expr.trueExpr)
                \o <<":">> \o WordsOf(expr.falseExpr)

\* every operator of the tree has operands of the levels the table allows:
\* left of a left-associative operator its own level or higher, right of it
\* a higher level; left of `=` a higher level, right of it any; under a unary
\* operator a factor
RECURSIVE GroupedByLevel(_)
GroupedByLevel(expr) ==
    CASE expr.type = "BINARY" ->
            /\ LevelOf(expr.operand1) >= LevelOf(expr)
            /\ LevelOf(expr.operand2) > LevelOf(expr)
            /\ GroupedByLevel(expr.operand1)
            /\ GroupedByLevel(expr.operand2)
      [] expr.type = "ASSIGNMENT" ->
            /\ LevelOf(expr.exp1) > LevelOf(expr)
            /\ GroupedByLevel(expr.exp1)
            /\ GroupedByLevel(expr.exp2)
      [] expr.type = "UNARY" ->
            /\ IsFactor(expr.operand)
            /\ GroupedByLevel(expr.operand)
      [] OTHER -> TRUE

\* the words of the expression of `return e;`, the last statement of the
\* token sequence
WordsReturned(toks) ==
    [i \in 1..(Len(toks) - Len(FunctionHeader) - 3) |->
        toks[Len(FunctionHeader) + 1 + i].word]

\* C26: the tree parseExpression builds for an expression without parentheses
\* is the one of the precedence table: an operator of a higher level binds
\* tighter, `* / %`, `+ -`, the relational, the equality operators, `&&` and
\* `||` group to the left, `=` groups to the right, and `~`, `-`, `!` bind
\* tighter than any binary operator.
C26_TreeFollowsPrecedence ==
    (stage = "parsed" /\ tokens \in ExpressionTokens) =>
        /\ WordsOf(Returned(program)) = WordsReturned(tokens)
        /\ GroupedByLevel(Returned(program))

\* a - b * c - d parsed as (a - (b * c)) - d
C26_Witness ==
    /\ stage = "parsed"
    /\ Returned(program)
          = ExpBinary("SUBTRACT",
                      ExpBinary("SUBTRACT", ExpVar("a"),
                                ExpBinary("MULTIPLY", ExpVar("b"), ExpVar("c"))),
                      ExpVar("d"))

\* ---- C27

\* the conditional expressions of a tree
ConditionalsOf(expr) == {e \in SubExpressions(expr) : e.type = "CONDITIONAL"}

\* the position of the `:` that closes the `?` at position i of words
ClosingColon(words, i) ==
    Min({j \in (i + 1)..Len(words) :
            /\ words[j] = ":"
            /\ Cardinality({k \in (i + 1)..(j - 1) : words[k] = "?"})
                  = Cardinality({k \in (i + 1)..(j - 1) : words[k] = ":"})})

FirstQuestionMark(words) == Min({i \in 1..Len(words) : words[i] = "?"})

\* the tree of `c ? m : f`: c, m and f are the words before the first `?`,
\* between it and its `:`, and after it
ParsedAsConditional(expr, words) ==
    /\ expr.type = "CONDITIONAL"
    /\ WordsOf(expr.condition) = SubSeq(words, 1, FirstQuestionMark(words) - 1)
    /\ WordsOf(expr.trueExpr)
          = SubSeq(words, FirstQuestionMark(words) + 1,
                   ClosingColon(words, FirstQuestionMark(words)) - 1)
    /\ WordsOf(expr.falseExpr)
          = SubSeq(words, ClosingColon(words, FirstQuestionMark(words)) + 1, Len(words))

DeclaringFors(items) ==
    {k \in 1..Len(items) :
        /\ items[k].type = "STATEMENT"
        /\ items[k].statement.type = "FOR"
        /\ items[k].statement.forInit.type = "INIT_DECL"}

\* the names of the events of the items from i on
NamesFrom(items, i) ==
    {ItemsEvents(items, i)[n].name : n \in 1..Len(ItemsEvents(items, i))}

\* the uses in events rsv of the name x of events src that no declaration of
\* src binds all carry the name u
FreeUsesRenamed(src, rsv, x, u) ==
    \A i \in 1..Len(src) :
        (src[i].ev = "use" /\ src[i].name = x /\ Binders(src, i) = {})
            => rsv[i].name = u

\* src and rsv are the body of a function before and after a resolution
\* that ended with error err. It fails exactly when, each for statement
\* being a scope of its own around its init, condition, post and body, a
\* name is used that no scope declares or declared twice in one scope. When
\* it succeeds, the variable declared in the init of a for statement has a
\* name of its own, which the condition, the post expression and the body
\* use for it and which nothing after the loop uses.
ForScoped(src, rsv, err) ==
    /\ err = "" <=> Faults(BlockEvents(src)) = {}
    /\ err = "Variable is already declared in this scope"
          <=> (/\ Faults(BlockEvents(src)) # {}
               /\ Redeclared(BlockEvents(src), Min(Faults(BlockEvents(src)))))
    /\ err = "Use of undeclared variable"
          <=> (/\ Faults(BlockEvents(src)) # {}
               /\ Unbound(BlockEvents(src), Min(Faults(BlockEvents(src)))))
    /\ err = "" =>
          \A k \in DeclaringFors(src) :
              /\ rsv[k].statement.forInit.decl.name
                    \notin NamesFrom(SubSeq(rsv, 1, k - 1), 1) \cup NamesFrom(rsv, k + 1)
              /\ FreeUsesRenamed(
                     ExpEvents(src[k].statement.condition)
                         \o ExpEvents(src[k].statement.postExpr)
                         \o StmtEvents(src[k].statement.body),
                     ExpEvents(rsv[k].statement.condition)
                         \o ExpEvents(rsv[k].statement.postExpr)
                         \o StmtEvents(rsv[k].statement.body),
                     src[k].statement.forInit.decl.name,
                     rsv[k].statement.forInit.decl.name)

\* C28: a for statement is a fresh scope around its init, condition, post
\* expression and body, whatever its init: a variable declared in the init is
\* visible in the condition, the post expression and the body, may have the
\* name of a variable of the enclosing scope, and is not visible after the
\* loop, where the scopes are those before the loop.
C28_ForIsAScope ==
    [][stage = "parsed" /\ stage' # "parsed"
          => ForScoped(program.body, program'.body, error')]_vars

\* int i = 5; for (int i = 0; i < 3; i = i + 1) i = 2; return i; resolved:
\* the loop uses the name of its own i, the return the name of the outer one
C28_Witness ==
    /\ stage = "resolved"
    /\ Len(program.body) = 3
    /\ program.body[1].type = "DECLARATION"
    /\ program.body[1].declaration.name = "i_0"
    /\ program.body[2].statement.forInit.type = "INIT_DECL"
    /\ program.body[2].statement.forInit.decl.name = "i_2"
    /\ program.body[2].statement.condition
          = ExpBinary("LESSTHAN", ExpVar("i_2"), ExpConstant(3))
    /\ program.body[2].statement.body
          = StmtExpression(ExpAssignment(ExpVar("i_2"), ExpConstant(2)))
    /\ program.body[3] = ItemStatement(StmtReturn(ExpVar("i_0")))

\* ---- C29

\* The value of an expression and the variables after it, the left operand
\* of an operator being evaluated, with its side effects, before the right
\* one.
RECURSIVE Evaluated(_, _)

Valued(v, env) == [value |-> v, env |-> env]

EvaluatedAssignment(expr, rhs) ==
    Valued(rhs.value, TacAssigned(rhs.env, expr.exp1.identifier, rhs.value))

EvaluatedRight(expr, lhs, rhs) ==
    Valued(TacBinaryResult(expr.bin_op, lhs.value, rhs.value), rhs.env)

EvaluatedLeft(expr, lhs) == EvaluatedRight(expr, lhs, Evaluated(expr.operand2, lhs.env))

EvaluatedUnary(expr, operand) ==
    Valued(TacUnaryResult(toTackyUnaryOp(expr.un_op), operand.value), operand.env)

Evaluated(expr, env) ==
    CASE expr.type = "CONSTANT" -> Valued(expr.value, env)
      [] expr.type = "VAR" -> Valued(env[expr.identifier], env)
      [] expr.type = "UNARY" -> EvaluatedUnary(expr, Evaluated(expr.operand, env))
      [] expr.type = "ASSIGNMENT" -> EvaluatedAssignment(expr, Evaluated(expr.exp2, env))
      [] expr.type = "BINARY" -> EvaluatedLeft(expr, Evaluated(expr.operand1, env))

\* the variables after the declarations `int a = A; int b = B;`
DeclaredValues(fn) ==
    [x \in {fn.body[1].declaration.name, fn.body[2].declaration.name} |->
        IF x = fn.body[1].declaration.name
        THEN fn.body[1].declaration.initializer.value
        ELSE fn.body[2].declaration.initializer.value]

\* the value a run of the TAC returns
ReturnedValue(body, trace) ==
    TacValue(trace[Len(trace)].env, body[trace[Len(trace)].pc].value)

\* the instructions of the left operand, then those of the right operand,
\* then the Binary instruction on their two values
LeftThenRight(body, expr, l, r) ==
    /\ Len(body) = 4 + Len(l.st.instructions) + Len(r.st.instructions)
    /\ SubSeq(body, 3, 2 + Len(l.st.instructions)) = l.st.instructions
    /\ SubSeq(body, 3 + Len(l.st.instructions), Len(body) - 2) = r.st.instructions
    /\ body[Len(body) - 1].kind = "Binary"
    /\ body[Len(body) - 1].src1 = l.val
    /\ body[Len(body) - 1].src2 = r.val

LeftLoweredFirst(body, expr, l) ==
    LeftThenRight(body, expr, l,
                  lowerExpression(expr.operand2, [l.st EXCEPT !.instructions = <<>>]))

\* C29: for Binary(op, a, b), op neither && nor ||, the instructions of a
\* come before those of b, and the left operand of the Binary instruction has
\* the value a had when it was evaluated, before any side effect of b: the
\* program returns the value of `a op b` evaluated from left to right.
C29_LeftOperandBeforeRight ==
    stage = "lowered" =>
        /\ LeftLoweredFirst(tackyBody, Returned(program),
                            lowerExpression(Returned(program).operand1, NewLowerer))
        /\ ReturnedValue(tackyBody, TacTrace(tackyBody, 1, << >>, <<>>))
              = Evaluated(Returned(program), DeclaredValues(program)).value

\* ---- C30

\* the positions of the jumps of a TAC body
JumpPositions(body) ==
    {i \in 1..Len(body) : body[i].kind \in {"Jump", "JumpIfZero", "JumpIfNotZero"}}

\* the lines of the emitted text that jump, and the lines that define the
\* label named by an operand
JumpLines(lines) ==
    {i \in 1..Len(lines) : lines[i].mnemonic \in ConditionalJumps \cup {"jmp"}}

DefiningLines(lines, target) ==
    {i \in 1..Len(lines) : lines[i] = Line(FALSE, target \o ":", <<>>)}

\* C30: in the TAC the lowerer produces, the target of every Jump, JumpIfZero
\* and JumpIfNotZero is the name of exactly one Label instruction of the
\* function, and in the text emitted from it every jmp and jCC names a label
\* that one line defines.
C30_JumpTargetsDefined ==
    /\ \A i \in JumpPositions(tackyBody) :
          Cardinality({j \in LabelPositions(tackyBody) :
                          tackyBody[j].name = tackyBody[i].target}) = 1
    /\ \A i \in JumpLines(asmCode) :
          Cardinality(DefiningLines(asmCode, asmCode[i].operands[1])) = 1

\* the text of an if with an else, whose condition is an && or an ||: a jmp
\* and four conditional jumps or more, each to a label the text defines
C30_Witness ==
    /\ stage = "emitted"
    /\ Cardinality(JumpPositions(tackyBody)) >= 5
    /\ Cardinality(JumpLines(asmCode)) = Cardinality(JumpPositions(tackyBody))
    /\ \E i \in JumpLines(asmCode) : asmCode[i].mnemonic = "jmp"
    /\ \E i \in JumpLines(asmCode) : asmCode[i].mnemonic = "jne"
    /\ \E i \in JumpLines(asmCode) :
          /\ asmCode[i].mnemonic = "je"
          /\ asmCode[i].operands[1] = "Lelse_2"

====
